---- MODULE Spec2Model ----
(***************************************************************************)
(* kbflash: the orchestration engine.                                      *)
(*                                                                         *)
(*   Spec          the TUI orchestrator (ui.Model) driven by bubbletea:    *)
(*                 key presses, device events of the presence detector,    *)
(*                 and the outcome messages of the build and flash workers.*)
(*   SpecPlugged   the same, started while the volume is mounted.          *)
(*   SpecHeadless  runHeadless: the --no-tui loop over the sides.          *)
(*   SpecDetect    Detector.Detect and a consumer of its channel.          *)
(*   SpecRestart   Model.startDetection called repeatedly.                 *)
(*   SpecScan      Scanner.Scan over a firmware directory.                 *)
(*   SpecNativeBuild  Builder.Build and its child process.                 *)
(*   SpecBuildAll  DockerBuilder.BuildAll.                                 *)
(*   SpecProgress  the build command of startBuild, its progress channel   *)
(*                 and the listener of that channel.                       *)
(*   SpecFlash     Flasher.Flash and copyWithContext.                      *)
(*   SpecFind      linuxDetector.findDevice on a list of candidates.       *)
(*                                                                         *)
(* Strings whose contents the code inspects (file names, side identifiers, *)
(* the flash target) are sequences of one-character strings, so that       *)
(* strings.ToLower and strings.Contains are computed, not assumed.         *)
(***************************************************************************)
EXTENDS Integers, Sequences, FiniteSets, TLC

(***************************************************************************)
(* Bounds                                                                  *)
(***************************************************************************)
\* the longest configured side list (keyboard.sides)
MaxSides == 2

\* the number of candidate mount paths the platform's detector checks:
\* one (darwinDetector: /Volumes/<name>) or two (linuxDetector)
MaxPaths == 1

\* the number of times detection is started on one Model
MaxDetections == 3

\* the number of entries of the firmware directory
MaxEntries == 3

\* the number of output lines of a build command
MaxLines == 3

\* the number of targets given to BuildAll
MaxTargets == 3

\* the number of progress callbacks of one build (more than the channel holds)
MaxProgress == 12

\* the capacity of m.buildProgress: make(chan firmware.BuildProgress, 10)
ProgressCap == 10

\* the length of the longest firmware file
MaxSize == 3

\* the length of the copy buffer (32 KiB in the code), in the same unit
ChunkSize == 2

\* the longest list of candidate paths findDevice is called with
MaxCandidates == 2

(***************************************************************************)
(* Strings                                                                 *)
(***************************************************************************)
s_left == <<"l", "e", "f", "t">>
s_right == <<"r", "i", "g", "h", "t">>
s_main == <<"m", "a", "i", "n">>
s_mid == <<"m", "i", "d">>
s_reset == <<"r", "e", "s", "e", "t">>
s_settings == <<"s", "e", "t", "t", "i", "n", "g", "s">>
s_resetSuffix == <<" ", "(", "r", "e", "s", "e", "t", ")">>

\* unicode.ToLower on the letters that occur in the model's names
LowerMap ==
  [L |-> "l", E |-> "e", F |-> "f", T |-> "t", R |-> "r", I |-> "i",
   G |-> "g", H |-> "h", S |-> "s", N |-> "n", W |-> "w"]

ToLowerChar(c) == IF c \in DOMAIN LowerMap THEN LowerMap[c] ELSE c

\* strings.ToLower
ToLower(s) == [i \in 1..Len(s) |-> ToLowerChar(s[i])]

\* strings.Contains
Contains(s, sub) ==
  \E i \in 0..(Len(s) - Len(sub)) : SubSeq(s, i + 1, i + Len(sub)) = sub

(***************************************************************************)
(* Configuration (config.Config): keyboard type, side list, build mode     *)
(***************************************************************************)
\* the identifiers a configuration can list as keyboard.sides, in order
SideNames == <<s_left, s_right, s_mid>>

SidePrefix(n) == SubSeq(SideNames, 1, n)

\* config.Load accepts any type and any side list (validate checks names only)
Configs ==
  {[type |-> "split", sides |-> SidePrefix(n),
    build |-> IF n = 0 THEN "native" ELSE "docker"] : n \in 0..MaxSides}
  \cup {[type |-> "unibody", sides |-> <<>>, build |-> "off"]}

\* NewModel: the side list shown in the status panel and the build menu
DisplaySides(c) ==
  IF Len(c.sides) = 0
    THEN IF c.type = "split" THEN <<s_left, s_right>> ELSE <<s_main>>
    ELSE c.sides

\* prepareFlash, Update(flashCompleteMsg), runHeadless: the side sequence
FlashSides(c) == IF Len(c.sides) = 0 THEN <<s_main>> ELSE c.sides

\* startFactoryReset: the side sequence
ResetSides(c) == IF Len(c.sides) = 0 THEN <<s_left, s_right>> ELSE c.sides

(***************************************************************************)
(* Firmware on disk (firmware.File, firmware.Build) as Scan returns it     *)
(***************************************************************************)
NoPath == ""

File(name, path) == [Name |-> name, Path |-> path]

f_left == File(s_left, "0115/left")
f_right == File(<<"R", "I", "G", "H", "T">>, "0115/RIGHT")
f_settings ==
  File(<<"S", "e", "t", "t", "i", "n", "g", "s", "_", "L", "e", "f", "t">>,
       "0115/Settings")
f_onlyReset == File(s_reset, "0102/reset")
f_fw == File(<<"f", "w">>, "fw")

Build(date, files) == [Date |-> date, Files |-> files]

\* The directory contents Scan can find: dated builds newest first, the
\* flat build last, every build with at least one file.
ScanResults ==
  { <<>>,
    << Build("20250115", <<f_left, f_right, f_settings>>),
       Build("20250102", <<f_onlyReset>>) >>,
    << Build("", <<f_fw>>) >> }

(***************************************************************************)
(* Scanner: the firmware directory as os.ReadDir lists it, isDateDir,      *)
(* scanDirectory, the comparison and the sort of Scan                      *)
(***************************************************************************)
\* a directory entry: its name, entry.IsDir(), the result of filepath.Match
\* on its name; for a directory whether os.ReadDir succeeds, and its listing
FileEntry(name, matches) ==
  [name |-> name, isDir |-> FALSE, matches |-> matches, readable |-> TRUE,
   listing |-> <<>>]

DirEntry(name, readable, listing) ==
  [name |-> name, isDir |-> TRUE, matches |-> TRUE, readable |-> readable,
   listing |-> listing]

n_fw == <<"f", "w">>
n_notes == <<"n", "o", "t", "e", "s">>
d_20250115 == <<"2", "0", "2", "5", "0", "1", "1", "5">>
d_20250102 == <<"2", "0", "2", "5", "0", "1", "0", "2">>
d_20241231 == <<"2", "0", "2", "4", "1", "2", "3", "1">>
d_20250120 == <<"2", "0", "2", "5", "0", "1", "2", "0">>
d_20250103 == <<"2", "0", "2", "5", "0", "1", "0", "3">>

\* a character of two bytes in UTF-8 (e with acute accent)
c_twoBytes == "e-acute"

\* what the firmware directory may contain: dated directories with and
\* without matching files, one that cannot be read, directories whose name
\* is no date (7 digits, a letter, 8 bytes with a two-byte character), a
\* matching file, and a file named like a date
RootEntries ==
  { DirEntry(d_20250115, TRUE,
             <<FileEntry(s_left, TRUE), FileEntry(s_right, TRUE),
               DirEntry(s_main, TRUE, <<>>)>>),
    DirEntry(d_20250102, TRUE, <<FileEntry(n_notes, FALSE), FileEntry(n_fw, TRUE)>>),
    DirEntry(d_20241231, TRUE, <<FileEntry(n_notes, FALSE)>>),
    DirEntry(d_20250120, FALSE, <<FileEntry(n_fw, TRUE)>>),
    DirEntry(<<"2", "0", "2", "5", "0", "1", "1">>, TRUE, <<FileEntry(n_fw, TRUE)>>),
    DirEntry(<<"2", "0", "2", "5", "0", "1", "1", "x">>, TRUE, <<FileEntry(n_fw, TRUE)>>),
    DirEntry(<<"2", "0", "2", "5", "0", "1", c_twoBytes>>, TRUE,
             <<FileEntry(n_fw, TRUE)>>),
    FileEntry(n_fw, TRUE),
    FileEntry(d_20250103, FALSE) }

\* the listings of the firmware directory: distinct entries in any order
RootListings ==
  UNION { {r \in [1..n -> RootEntries] : \A i, j \in 1..n : i # j => r[i] # r[j]}
          : n \in 0..MaxEntries }

DateDigits == <<"0", "1", "2", "3", "4", "5", "6", "7", "8", "9">>

IsDigitChar(c) == \E k \in 1..10 : DateDigits[k] = c

\* len(s): the bytes of the name
RECURSIVE ByteLen(_)
ByteLen(name) ==
  IF name = <<>> THEN 0
  ELSE (IF Head(name) = c_twoBytes THEN 2 ELSE 1) + ByteLen(Tail(name))

\* isDateDir: 8 bytes, every character between '0' and '9'
isDateDir(name) ==
  /\ ByteLen(name) = 8
  /\ \A k \in 1..Len(name) : IsDigitChar(name[k])

\* scanDirectory after its context check: the entries that are no
\* directory and match the pattern, in listing order
scanDirectory(listing) ==
  LET keep(e) == ~e.isDir /\ e.matches
      RECURSIVE files(_)
      files(l) ==
        IF l = <<>> THEN <<>>
        ELSE (IF keep(Head(l)) THEN <<File(Head(l).name, Head(l).name)>> ELSE <<>>)
               \o files(Tail(l))
  IN  files(listing)

\* Go's > on two strings of digits (byte-wise, lexicographic)
RECURSIVE StrGreater(_, _)
StrGreater(a, b) ==
  IF a = <<>> THEN FALSE
  ELSE IF b = <<>> THEN TRUE
  ELSE LET ca == CHOOSE k \in 1..10 : DateDigits[k] = Head(a)
           cb == CHOOSE k \in 1..10 : DateDigits[k] = Head(b)
       IN  IF ca # cb THEN ca > cb ELSE StrGreater(Tail(a), Tail(b))

\* variant: oldest first
less_ascending(bi, bj) ==
  IF bi.Date = <<>> THEN FALSE
  ELSE IF bj.Date = <<>> THEN TRUE
  ELSE StrGreater(bj.Date, bi.Date)

\* the less function given to sort.Slice
less(bi, bj) ==
  IF bi.Date = <<>> THEN FALSE
  ELSE IF bj.Date = <<>> THEN TRUE
  ELSE StrGreater(bi.Date, bj.Date)

\* sort.Slice: some arrangement of the builds in which no build is less
\* than one placed before it
SortSlice(builds) ==
  LET n == Len(builds)
      perms == {f \in [1..n -> 1..n] : \A i, j \in 1..n : i # j => f[i] # f[j]}
  IN  { [k \in 1..n |-> builds[f[k]]] : f \in
          {g \in perms : \A i, j \in 1..n :
              i < j => ~less(builds[g[j]], builds[g[i]])} }

(***************************************************************************)
(* Device paths (Detect builds the candidates from the volume name)        *)
(***************************************************************************)
AllPaths == <<"/run/media/u/KB", "/media/u/KB">>

CandidatePaths == SubSeq(AllPaths, 1, MaxPaths)

PathSet == {CandidatePaths[i] : i \in 1..Len(CandidatePaths)}

\* for _, p := range paths { if _, err := os.Stat(p); err == nil { return
\* true, p } }, from index i on; then "Return first path as the expected
\* location when not connected"
RECURSIVE findDeviceFrom(_, _, _)
findDeviceFrom(paths, i, exists) ==
  IF i <= Len(paths)
    THEN IF paths[i] \in exists
           THEN [Connected |-> TRUE, Path |-> paths[i]]
           ELSE findDeviceFrom(paths, i + 1, exists)
    ELSE IF Len(paths) > 0
           THEN [Connected |-> FALSE, Path |-> paths[1]]
           ELSE [Connected |-> FALSE, Path |-> ""]

\* variant: the loop keeps going and the last existing candidate wins
findDeviceIn_lastMatch(paths, exists) ==
  LET hits == {i \in 1..Len(paths) : paths[i] \in exists}
  IN  IF hits # {}
        THEN [Connected |-> TRUE,
              Path |-> paths[CHOOSE i \in hits : \A j \in hits : j <= i]]
        ELSE findDeviceFrom(paths, 1, exists)

\* linuxDetector.findDevice(paths), exists the paths os.Stat finds
findDeviceIn(paths, exists) == findDeviceFrom(paths, 1, exists)

\* d.findDevice(paths) in Detect: the candidates of the volume name
findDevice(mounted) == findDeviceIn(CandidatePaths, mounted)

(***************************************************************************)
(* ui.Model: the fields the orchestration reads and writes                 *)
(***************************************************************************)
StateIdle == "Idle"
StateBuilding == "Building"
StateWaitingDisconnect == "WaitingDisconnect"
StateWaitingDevice == "WaitingDevice"
StateFlashing == "Flashing"
StateComplete == "Complete"

AppStates ==
  {StateIdle, StateBuilding, StateWaitingDisconnect, StateWaitingDevice,
   StateFlashing, StateComplete}

DeviceDisconnected == "Disconnected"
DeviceConnected == "Connected"

PanelFirmware == 0
PanelStatus == 1
PanelLog == 2

\* ConfirmDialog.selected, or "nil" when m.confirmDialog is nil
DialogNil == "nil"
DialogConfirm == "Confirm"
DialogCancel == "Cancel"

NewModel ==
  [state |-> StateIdle, activePanel |-> PanelFirmware, showHelp |-> FALSE,
   showDialog |-> FALSE, showBuildMenu |-> FALSE, confirmDialog |-> DialogNil,
   deviceStatus |-> DeviceDisconnected, devicePath |-> "",
   builds |-> <<>>, selected |-> 0,
   flashTarget |-> <<>>, flashIndex |-> 0, completedSteps |-> <<>>]

(***************************************************************************)
(* tea.Cmd: what a handler asks the runtime to run after it returns        *)
(***************************************************************************)
NoCmd == [listen |-> FALSE, flash |-> NoPath, build |-> FALSE, quit |-> FALSE]
ListenCmd == [NoCmd EXCEPT !.listen = TRUE]
FlashCmd(path) == [NoCmd EXCEPT !.flash = path]
BuildCmd == [NoCmd EXCEPT !.build = TRUE]
QuitCmd == [NoCmd EXCEPT !.quit = TRUE]

Ret(mm, c) == [m |-> mm, cmd |-> c]

(***************************************************************************)
(* FirmwarePanel                                                           *)
(***************************************************************************)
HasSelected(mm) == Len(mm.builds) # 0

Selected(mm) == mm.builds[mm.selected + 1]

SetBuilds(mm, builds) ==
  LET s1 == IF mm.selected >= Len(builds) THEN Len(builds) - 1 ELSE mm.selected
      s2 == IF s1 < 0 THEN 0 ELSE s1
  IN  [mm EXCEPT !.builds = builds, !.selected = s2]

MoveUp(mm) ==
  IF mm.selected > 0 THEN [mm EXCEPT !.selected = mm.selected - 1] ELSE mm

MoveDown(mm) ==
  IF mm.selected < Len(mm.builds) - 1
    THEN [mm EXCEPT !.selected = mm.selected + 1] ELSE mm

(***************************************************************************)
(* Target-file resolution                                                  *)
(***************************************************************************)
MinOf(S) == CHOOSE x \in S : \A y \in S : x <= y

\* variant: the fallback takes the first file of any non-empty build
ResolveFile_anyFallback(files, target) ==
  LET t == ToLower(target)
      hits == {i \in 1..Len(files) : Contains(ToLower(files[i].Name), t)}
  IN  IF hits # {} THEN files[MinOf(hits)].Path
      ELSE IF Len(files) >= 1 THEN files[1].Path
      ELSE NoPath

\* startFlash: first file whose lower-cased name contains the lower-cased
\* target; else the only file of a one-file build; else none
ResolveFile(files, target) ==
  LET t == ToLower(target)
      hits == {i \in 1..Len(files) : Contains(ToLower(files[i].Name), t)}
  IN  IF hits # {} THEN files[MinOf(hits)].Path
      ELSE IF Len(files) = 1 THEN files[1].Path
      ELSE NoPath

\* runHeadless: the same search over builds[0].Files for the loop's side
HeadlessResolveFile(files, side) ==
  LET target == ToLower(side)
      hits == {i \in 1..Len(files) : Contains(ToLower(files[i].Name), target)}
  IN  IF hits # {} THEN files[MinOf(hits)].Path
      ELSE IF Len(files) = 1 THEN files[1].Path
      ELSE NoPath

\* startFactoryReset: first file whose name contains "reset" or "settings"
IsResetName(name) ==
  Contains(ToLower(name), s_reset) \/ Contains(ToLower(name), s_settings)

ResetFile(files) ==
  LET hits == {i \in 1..Len(files) : IsResetName(files[i].Name)}
  IN  IF hits # {} THEN files[MinOf(hits)].Path ELSE NoPath

(***************************************************************************)
(* Model.startFlash, Model.startFactoryReset, Model.prepareFlash,          *)
(* Model.startBuild                                                        *)
(***************************************************************************)
startFlash(mm) ==
  IF ~HasSelected(mm) THEN Ret(mm, NoCmd)
  ELSE LET filePath == ResolveFile(Selected(mm).Files, mm.flashTarget)
       IN  IF filePath = NoPath
             THEN Ret([mm EXCEPT !.state = StateIdle], NoCmd)
             ELSE Ret([mm EXCEPT !.state = StateFlashing], FlashCmd(filePath))

\* variant: the reset is flashed without looking at the device status
startFactoryReset_noDeviceCheck(mm, c) ==
  IF ~HasSelected(mm) THEN Ret(mm, NoCmd)
  ELSE LET resetPath == ResetFile(Selected(mm).Files)
           m1 == [mm EXCEPT !.completedSteps = <<>>, !.flashIndex = 0,
                            !.flashTarget = ResetSides(c)[1] \o s_resetSuffix]
       IN  IF resetPath = NoPath THEN Ret(mm, NoCmd)
           ELSE Ret([m1 EXCEPT !.state = StateFlashing], FlashCmd(resetPath))

startFactoryReset(mm, c) ==
  IF ~HasSelected(mm) THEN Ret(mm, NoCmd)
  ELSE LET resetPath == ResetFile(Selected(mm).Files)
           m1 == [mm EXCEPT !.completedSteps = <<>>, !.flashIndex = 0,
                            !.flashTarget = ResetSides(c)[1] \o s_resetSuffix]
       IN  IF resetPath = NoPath THEN Ret(mm, NoCmd)
           ELSE IF mm.deviceStatus = DeviceConnected
             THEN Ret([m1 EXCEPT !.state = StateFlashing], FlashCmd(resetPath))
             ELSE Ret([m1 EXCEPT !.state = StateWaitingDevice], NoCmd)

\* variant: no disconnect is required of a connected device
prepareFlashState_connectOnly(status) == StateWaitingDevice

\* the state prepareFlash moves to, by the recorded device status
prepareFlashState(status) ==
  IF status = DeviceConnected THEN StateWaitingDisconnect ELSE StateWaitingDevice

\* variant: a new session keeps the cursor of the previous one
prepareFlash_keepCursor(mm, c) ==
  IF ~HasSelected(mm) \/ Len(Selected(mm).Files) = 0 THEN Ret(mm, NoCmd)
  ELSE Ret([mm EXCEPT !.completedSteps = <<>>,
                      !.flashTarget = FlashSides(c)[1],
                      !.state = prepareFlashState(mm.deviceStatus)], NoCmd)

prepareFlash(mm, c) ==
  IF ~HasSelected(mm) \/ Len(Selected(mm).Files) = 0 THEN Ret(mm, NoCmd)
  ELSE Ret([mm EXCEPT !.completedSteps = <<>>, !.flashIndex = 0,
                      !.flashTarget = FlashSides(c)[1],
                      !.state = prepareFlashState(mm.deviceStatus)], NoCmd)

\* dockerOk: the outcome of firmware.CheckDocker
startBuild(mm, c, target, dockerOk) ==
  IF c.build = "off" THEN Ret(mm, NoCmd)
  ELSE IF c.build = "docker" /\ ~dockerOk THEN Ret(mm, NoCmd)
  ELSE Ret([mm EXCEPT !.state = StateBuilding], BuildCmd)

(***************************************************************************)
(* Model.handleKey and the handlers it dispatches to                       *)
(***************************************************************************)
s_all == <<"a", "l", "l">>

DigitKeys == <<"1", "2", "3">>

DigitIndex(k) == CHOOSE i \in 1..Len(DigitKeys) : DigitKeys[i] = k

IsDigit(k) == \E i \in 1..Len(DigitKeys) : DigitKeys[i] = k

handleBuildMenuKey(mm, c, k, dockerOk) ==
  LET targets == DisplaySides(c)
  IN  IF k = "a" /\ Len(targets) > 1
        THEN startBuild([mm EXCEPT !.showBuildMenu = FALSE], c, s_all, dockerOk)
      ELSE IF IsDigit(k) /\ DigitIndex(k) - 1 < Len(targets)
        THEN startBuild([mm EXCEPT !.showBuildMenu = FALSE], c,
                        targets[DigitIndex(k)], dockerOk)
      ELSE IF k = "esc" THEN Ret([mm EXCEPT !.showBuildMenu = FALSE], NoCmd)
      ELSE Ret(mm, NoCmd)

\* variant: enter starts the reset whichever option is selected
handleDialogKey_enterStarts(mm, c, k) ==
  IF k \in {"left", "h"} THEN Ret([mm EXCEPT !.confirmDialog = DialogConfirm], NoCmd)
  ELSE IF k \in {"right", "l"} THEN Ret([mm EXCEPT !.confirmDialog = DialogCancel], NoCmd)
  ELSE IF k = "enter"
    THEN startFactoryReset([mm EXCEPT !.showDialog = FALSE], c)
  ELSE Ret(mm, NoCmd)

handleDialogKey(mm, c, k) ==
  IF k \in {"left", "h"} THEN Ret([mm EXCEPT !.confirmDialog = DialogConfirm], NoCmd)
  ELSE IF k \in {"right", "l"} THEN Ret([mm EXCEPT !.confirmDialog = DialogCancel], NoCmd)
  ELSE IF k = "enter"
    THEN IF mm.confirmDialog = DialogConfirm
           THEN startFactoryReset([mm EXCEPT !.showDialog = FALSE], c)
           ELSE Ret([mm EXCEPT !.showDialog = FALSE, !.confirmDialog = DialogNil], NoCmd)
  ELSE Ret(mm, NoCmd)

handleIdleKey(mm, c, k) ==
  IF k \in {"up", "k"}
    THEN Ret(IF mm.activePanel = PanelFirmware THEN MoveUp(mm) ELSE mm, NoCmd)
  ELSE IF k \in {"down", "j"}
    THEN Ret(IF mm.activePanel = PanelFirmware THEN MoveDown(mm) ELSE mm, NoCmd)
  ELSE IF k = "tab" THEN Ret([mm EXCEPT !.activePanel = (mm.activePanel + 1) % 3], NoCmd)
  ELSE IF k = "1" THEN Ret([mm EXCEPT !.activePanel = PanelFirmware], NoCmd)
  ELSE IF k = "2" THEN Ret([mm EXCEPT !.activePanel = PanelStatus], NoCmd)
  ELSE IF k = "3" THEN Ret([mm EXCEPT !.activePanel = PanelLog], NoCmd)
  ELSE IF k = "b"
    THEN Ret(IF c.build # "off" THEN [mm EXCEPT !.showBuildMenu = TRUE] ELSE mm, NoCmd)
  ELSE IF k \in {"f", "enter"}
    THEN IF HasSelected(mm) THEN prepareFlash(mm, c) ELSE Ret(mm, NoCmd)
  ELSE IF k = "r"
    THEN Ret(IF c.type = "split"
               THEN [mm EXCEPT !.confirmDialog = DialogCancel, !.showDialog = TRUE]
               ELSE mm, NoCmd)
  ELSE Ret(mm, NoCmd)

\* variant: the action keys are also dispatched while a worker runs
AcceptsCommands_busy(mm) ==
  mm.state \in {StateIdle, StateBuilding, StateFlashing}

\* switch m.state: only StateIdle dispatches to handleIdleKey
AcceptsCommands(mm) == mm.state = StateIdle

\* variant: "q" quits in any state of the flow
QuitAllowed_anyState(mm) == ~mm.showDialog /\ ~mm.showBuildMenu
\* the "q" key quits only here
QuitAllowed(mm) ==
  ~mm.showDialog /\ ~mm.showBuildMenu /\ mm.state \in {StateIdle, StateComplete}

handleKey(mm, c, k, dockerOk) ==
  IF k = "ctrl+c" THEN Ret(mm, QuitCmd)
  ELSE IF k = "q" /\ QuitAllowed(mm) THEN Ret(mm, QuitCmd)
  ELSE IF k = "?"
    THEN Ret(IF mm.state = StateIdle THEN [mm EXCEPT !.showHelp = ~mm.showHelp] ELSE mm,
             NoCmd)
  ELSE IF k = "esc" /\ mm.showHelp THEN Ret([mm EXCEPT !.showHelp = FALSE], NoCmd)
  ELSE IF k = "esc" /\ mm.showBuildMenu
    THEN Ret([mm EXCEPT !.showBuildMenu = FALSE], NoCmd)
  ELSE IF k = "esc" /\ mm.showDialog
    THEN Ret([mm EXCEPT !.showDialog = FALSE, !.confirmDialog = DialogNil], NoCmd)
  ELSE IF k = "esc" /\ mm.state \in {StateWaitingDisconnect, StateWaitingDevice}
    THEN Ret([mm EXCEPT !.state = StateIdle], NoCmd)
  ELSE IF k = "esc" /\ mm.state = StateComplete
    THEN Ret([mm EXCEPT !.state = StateIdle, !.completedSteps = <<>>], NoCmd)
  ELSE IF mm.showBuildMenu THEN handleBuildMenuKey(mm, c, k, dockerOk)
  ELSE IF mm.showDialog /\ mm.confirmDialog # DialogNil THEN handleDialogKey(mm, c, k)
  ELSE IF mm.showHelp THEN Ret(mm, NoCmd)
  ELSE IF AcceptsCommands(mm) THEN handleIdleKey(mm, c, k)
  ELSE IF mm.state = StateComplete /\ k = "enter"
    THEN Ret([mm EXCEPT !.state = StateIdle, !.completedSteps = <<>>], NoCmd)
  ELSE Ret(mm, NoCmd)

(***************************************************************************)
(* Model.Update on deviceEventMsg, flashCompleteMsg, buildCompleteMsg      *)
(***************************************************************************)
onDeviceEvent(mm, ev) ==
  IF ev.Connected
    THEN LET m1 == [mm EXCEPT !.deviceStatus = DeviceConnected,
                              !.devicePath = ev.Path]
         IN  IF mm.state = StateWaitingDevice
               THEN startFlash(m1)
               ELSE Ret(m1, ListenCmd)
    ELSE LET m1 == [mm EXCEPT !.deviceStatus = DeviceDisconnected,
                              !.devicePath = ""]
         IN  IF mm.state = StateWaitingDisconnect
               THEN Ret([m1 EXCEPT !.state = StateWaitingDevice], ListenCmd)
               ELSE Ret(m1, ListenCmd)

\* variant: the next side waits for a connect only
afterFlashSuccess_noDisconnect(index, sides) ==
  IF index < Len(sides) THEN StateWaitingDevice ELSE StateComplete

\* the state after a successful flash, by the advanced cursor
afterFlashSuccess(index, sides) ==
  IF index < Len(sides) THEN StateWaitingDisconnect ELSE StateComplete

onFlashComplete(mm, c, success) ==
  IF success
    THEN LET sides == FlashSides(c)
             idx == mm.flashIndex + 1
             m1 == [mm EXCEPT !.completedSteps = Append(@, mm.flashTarget),
                              !.flashIndex = idx,
                              !.state = afterFlashSuccess(idx, sides)]
         IN  IF idx < Len(sides)
               THEN Ret([m1 EXCEPT !.flashTarget = sides[idx + 1]], NoCmd)
               ELSE Ret(m1, NoCmd)
    ELSE Ret([mm EXCEPT !.state = StateIdle], NoCmd)

\* variant: the list is left as it is after a successful build
onBuildComplete_noRescan(mm, success, scan) ==
  Ret([mm EXCEPT !.state = StateIdle], NoCmd)

\* scan: what m.scanner.Scan returns when the handler calls it
onBuildComplete(mm, success, scan) ==
  IF success
    THEN Ret([SetBuilds(mm, scan) EXCEPT !.state = StateIdle], NoCmd)
    ELSE Ret([mm EXCEPT !.state = StateIdle], NoCmd)

(***************************************************************************)
(* State                                                                   *)
(***************************************************************************)
VARIABLES
  cfg,        \* the loaded configuration
  m,          \* ui.Model
  prog,       \* the bubbletea program: "new", "running", "quit"
  mounted,    \* the candidate mount paths that exist on the filesystem
  dpc,        \* detector goroutine: "none", "start", "send", "poll", "closed"
  dLast,      \* detector: lastConnected, lastPath (the event being sent)
  ctxDone,    \* the detection context has been cancelled
  listeners,  \* outstanding listenForNextEvent commands
  devMsg,     \* deviceEventMsg delivered to the program, not yet handled
  flashJob,   \* flash command issued, Flasher.Flash not yet called (history:
              \* path, m.devicePath when the command was issued)
  flashMsg,   \* flashCompleteMsg not yet handled
  nFlash,     \* flash commands issued whose outcome is not yet handled
  buildJob,   \* build command issued, Build not yet finished
  buildMsg,   \* buildCompleteMsg not yet handled
  nBuild,     \* build commands issued whose outcome is not yet handled
  discSeen,   \* history: in the current flashing session a disconnect event
              \* was handled since the last successful flash outcome
  h,          \* runHeadless: its locals and position
  det,        \* m.detectCancel and the contexts and Detect workers created
  sc,         \* Scanner.Scan: its directory tree, context, locals, result
  nb,         \* Builder.Build (native): its locals and the progress reported
  ba,         \* DockerBuilder.BuildAll: its arguments, locals and result
  bp,         \* the build command of startBuild and its progress channel
  fl,         \* Flasher.Flash: its arguments, files, locals and result
  fd          \* findDevice called by itself: its arguments and its result

vars ==
  <<cfg, m, prog, mounted, dpc, dLast, ctxDone, listeners, devMsg, flashJob,
    flashMsg, nFlash, buildJob, buildMsg, nBuild, discSeen, h, det, sc,
    nb, ba, bp, fl, fd>>

detVars == <<dpc, dLast, ctxDone>>
workerVars == <<flashJob, flashMsg, nFlash, buildJob, buildMsg, nBuild>>

NoEvent == [Connected |-> FALSE, Path |-> ""]

\* sc: pc is Scan's position; root, exists the firmware directory; cancelled
\* the state of ctx; i the index of the entry loop; builds, result, err
\* (a context error was returned).  History: fired, a ctx.Err() check found
\* the context cancelled.
NoScan ==
  [pc |-> "off", root |-> <<>>, exists |-> TRUE, cancelled |-> FALSE,
   fired |-> FALSE, i |-> 1, builds |-> <<>>, result |-> <<>>, err |-> FALSE]

\* nb: pc is the position of the native Build, cancelled the state of ctx,
\* n the lines read, maxTotal its local; child is the process of cmd
\* ("none", "running", "killed": terminated and not waited for, "reaped"),
\* pipe tells whether the read end of its stdout pipe is open.  History:
\* current and percent of the last progress-marker callback (percent -1:
\* none yet); result, "" until Build returns; line, the line of the last
\* callback; seen, the totals of the progress-marker lines so far.
NoBuild ==
  [pc |-> "off", cancelled |-> FALSE, n |-> 0, maxTotal |-> 0,
   current |-> 0, percent |-> -1, result |-> "", child |-> "none",
   pipe |-> FALSE, line |-> [marker |-> FALSE, cur |-> <<>>, tot |-> <<>>],
   seen |-> {}]

\* ba: sides is the argument of BuildAll, i the loop index (1-based),
\* results the results slice so far (Success of each), ret what was
\* returned.  History: started, the sides Build was called for.
NoBuildAll ==
  [pc |-> "off", sides |-> <<>>, i |-> 1, results |-> <<>>, ret |-> <<>>,
   started |-> <<>>]

\* bp: the command closure of startBuild.  pc is its position ("ensure":
\* in EnsureImage, "build": in Build, "done": it returned its message);
\* sending is the message of the progress callback it is in (0: in none);
\* buf is the content of m.buildProgress and closed its state; listening, a
\* listenForBuildProgress command is waiting in its receive; msg, the
\* buildProgressMsg not yet handled (0: none); percent, m.buildPercent;
\* outcome, the result of the buildCompleteMsg ("": not returned yet).
\* handled, Update has handled the buildCompleteMsg.
\* History: lines, the callbacks made; dropped, the messages not queued.
NoProgress ==
  [pc |-> "off", sending |-> 0, buf |-> <<>>, closed |-> FALSE,
   listening |-> FALSE, msg |-> 0, percent |-> 0, outcome |-> "",
   lines |-> 0, dropped |-> 0, handled |-> FALSE]

\* FlashResult
FlashResult(success, error, cause, bytesWritten) ==
  [Success |-> success, Error |-> error, Cause |-> cause,
   BytesWritten |-> bytesWritten]

NoResult == FlashResult(FALSE, "", "", 0)

\* fl: pc is the position of Flash ("check", "open", "create", "copy",
\* "verify", "done"); cancelled the state of ctx; srcExists, size, content
\* the source file (size: what Stat reports, content: the bytes reads
\* deliver); dirExists the destination directory; dst the length of the
\* destination file (-1: there is none); srcOpen, dstOpen the handles held;
\* read, written the locals of the copy; result what Flash returned.
\* History: cancelled0, ctx was cancelled before the call; dst0, the
\* destination before the call; opens, the files opened or created; ioErr,
\* a system call failed for a reason other than a missing file or
\* directory; synced, dst.Sync() returned nil.
NoFlash ==
  [pc |-> "off", cancelled |-> FALSE, cancelled0 |-> FALSE,
   srcExists |-> TRUE, size |-> 0, content |-> 0, dirExists |-> TRUE,
   dst |-> -1, dst0 |-> -1, srcOpen |-> FALSE, dstOpen |-> FALSE,
   read |-> 0, written |-> 0, opens |-> 0, ioErr |-> FALSE,
   synced |-> FALSE, result |-> NoResult]

\* fd: pc is the position of the call; paths, exists are the candidates and
\* the paths that exist; connected, path is what findDevice returned
NoFind ==
  [pc |-> "off", paths |-> <<>>, exists |-> {}, connected |-> FALSE,
   path |-> ""]

\* det: detectCancel is the context m.detectCancel cancels (0: nil); ctxs[k]
\* tells whether context k has been cancelled; workers[i] is the context
\* the i-th Detect worker was started with
NoDetection == [detectCancel |-> 0, ctxs |-> <<>>, workers |-> <<>>]

\* if m.detectCancel != nil { m.detectCancel() }
CancelDetection(d) ==
  IF d.detectCancel # 0 THEN [d EXCEPT !.ctxs[d.detectCancel] = TRUE] ELSE d

\* variant: the previous context is left alone
startDetection_noCancel(d) ==
  LET k == Len(d.ctxs) + 1
  IN  [detectCancel |-> k, ctxs |-> Append(d.ctxs, FALSE),
       workers |-> Append(d.workers, k)]

\* Model.startDetection: cancel the existing detection, then a new context
\* of its own for the new Detect worker
startDetection(d) ==
  LET d1 == CancelDetection(d)
      k == Len(d1.ctxs) + 1
  IN  [detectCancel |-> k, ctxs |-> Append(d1.ctxs, FALSE),
       workers |-> Append(d1.workers, k)]
NoDevMsg == [present |-> FALSE, event |-> NoEvent]
NoFlashJob == [present |-> FALSE, file |-> NoPath, path |-> ""]
NoFlashMsg == [present |-> FALSE, Success |-> FALSE, file |-> NoPath, path |-> ""]
NoBuildMsg == [present |-> FALSE, Success |-> FALSE]

Keys ==
  {"ctrl+c", "q", "?", "esc", "left", "h", "right", "l", "enter", "up", "k",
   "down", "j", "tab", "1", "2", "3", "a", "b", "f", "r", "x"}

\* runHeadless: pc is its position; builds, side (1-based index of the
\* for loop), filePath, devicePath are its locals.  History: flashed, the
\* files flashed so far; sawDisc, a disconnect event was received since the
\* last flash finished; stayed, the volume was not unmounted since then.
HeadlessIdle ==
  [pc |-> "off", builds |-> <<>>, side |-> 1, filePath |-> NoPath,
   devicePath |-> "", sawDisc |-> FALSE, stayed |-> FALSE, flashed |-> <<>>]

Init ==
  /\ cfg \in Configs
  /\ m = NewModel
  /\ prog = "new"
  /\ mounted \in SUBSET PathSet
  /\ dpc = "none"
  /\ dLast = NoEvent
  /\ ctxDone = FALSE
  /\ listeners = 0
  /\ devMsg = NoDevMsg
  /\ flashJob = NoFlashJob
  /\ flashMsg = NoFlashMsg
  /\ nFlash = 0
  /\ buildJob = FALSE
  /\ buildMsg = NoBuildMsg
  /\ nBuild = 0
  /\ discSeen = FALSE
  /\ bp = NoProgress
  /\ fl = NoFlash
  /\ fd = NoFind
  /\ h = HeadlessIdle
  /\ det = NoDetection
  /\ sc = NoScan
  /\ nb = NoBuild
  /\ ba = NoBuildAll

(***************************************************************************)
(* The filesystem: the volume appears and disappears                       *)
(***************************************************************************)
Mount ==
  \E p \in PathSet \ mounted :
    /\ mounted' = mounted \cup {p}
    /\ UNCHANGED <<cfg, m, prog, detVars, listeners, devMsg, workerVars,
                   discSeen, h, det, sc, nb, ba, bp, fl, fd>>

Unmount ==
  \E p \in mounted :
    /\ mounted' = mounted \ {p}
    /\ h' = [h EXCEPT !.stayed = FALSE]
    /\ UNCHANGED <<cfg, m, prog, detVars, listeners, devMsg, workerVars,
                   discSeen, det, sc, nb, ba, bp, fl, fd>>

(***************************************************************************)
(* linuxDetector.Detect: the polling goroutine                             *)
(***************************************************************************)
\* variant: no check at start, the zero values of lastConnected, lastPath
\* are sent
DetectStart_noCheck ==
  /\ dpc = "start"
  /\ dLast' = NoEvent
  /\ dpc' = "send"
  /\ UNCHANGED <<cfg, m, prog, mounted, ctxDone, listeners, devMsg, workerVars,
                 discSeen, h, det, sc, nb, ba, bp, fl, fd>>
\* "Check immediately on start": the initial event is computed
DetectStart ==
  /\ dpc = "start"
  /\ dLast' = findDevice(mounted)
  /\ dpc' = "send"
  /\ UNCHANGED <<cfg, m, prog, mounted, ctxDone, listeners, devMsg, workerVars,
                 discSeen, h, det, sc, nb, ba, bp, fl, fd>>

\* variant: every tick emits what it polled
DetectTick_everyTick ==
  /\ dpc = "poll"
  /\ dLast' = findDevice(mounted)
  /\ dpc' = "send"
  /\ UNCHANGED <<cfg, m, prog, mounted, ctxDone, listeners, devMsg, workerVars,
                 discSeen, h, det, sc, nb, ba, bp, fl, fd>>

\* a ticker tick on which the poll differs from the last emitted event
DetectTick ==
  /\ dpc = "poll"
  /\ findDevice(mounted) # dLast
  /\ dLast' = findDevice(mounted)
  /\ dpc' = "send"
  /\ UNCHANGED <<cfg, m, prog, mounted, ctxDone, listeners, devMsg, workerVars,
                 discSeen, h, det, sc, nb, ba, bp, fl, fd>>

\* variant: only the ticker loop's select has the <-ctx.Done() case
DetectDone_loopOnly ==
  /\ dpc = "poll"
  /\ ctxDone
  /\ dpc' = "closed"
  /\ UNCHANGED <<cfg, m, prog, mounted, dLast, ctxDone, listeners, devMsg,
                 workerVars, discSeen, h, det, sc, nb, ba, bp, fl, fd>>

\* <-ctx.Done() chosen in either select: return, the deferred close runs
DetectDone ==
  /\ dpc \in {"send", "poll"}
  /\ ctxDone
  /\ dpc' = "closed"
  /\ UNCHANGED <<cfg, m, prog, mounted, dLast, ctxDone, listeners, devMsg,
                 workerVars, discSeen, h, det, sc, nb, ba, bp, fl, fd>>

(***************************************************************************)
(* Model.listenForNextEvent: the command's goroutine                       *)
(***************************************************************************)
\* the unbuffered send meets the receive; the event becomes a message
ListenReceive ==
  /\ prog = "running"
  /\ listeners > 0
  /\ ~devMsg.present
  /\ dpc = "send"
  /\ devMsg' = [present |-> TRUE, event |-> dLast]
  /\ listeners' = listeners - 1
  /\ dpc' = "poll"
  /\ UNCHANGED <<cfg, m, prog, mounted, dLast, ctxDone, workerVars,
                 discSeen, h, det, sc, nb, ba, bp, fl, fd>>

(***************************************************************************)
(* The workers behind the flash and build commands                         *)
(***************************************************************************)
\* the command's closure calls m.flasher.Flash(ctx, filePath, m.devicePath):
\* the destination directory is read from the model when the closure runs.
\* The copy can succeed only if that directory exists; with an empty
\* device path the destination is the file's base name in the working
\* directory, which exists.
FlasherRun ==
  \E ok \in BOOLEAN :
    /\ prog = "running"
    /\ flashJob.present
    /\ ~flashMsg.present
    /\ ok => (m.devicePath \in mounted \/ m.devicePath = "")
    /\ flashMsg' = [present |-> TRUE, Success |-> ok, file |-> flashJob.file,
                    path |-> m.devicePath]
    /\ flashJob' = NoFlashJob
    /\ UNCHANGED <<cfg, m, prog, mounted, detVars, listeners, devMsg, nFlash,
                   buildJob, buildMsg, nBuild, discSeen, h, det, sc, nb, ba, bp, fl, fd>>

BuilderRun ==
  \E ok \in BOOLEAN :
    /\ prog = "running"
    /\ buildJob
    /\ ~buildMsg.present
    /\ buildMsg' = [present |-> TRUE, Success |-> ok]
    /\ buildJob' = FALSE
    /\ UNCHANGED <<cfg, m, prog, mounted, detVars, listeners, devMsg, flashJob,
                   flashMsg, nFlash, nBuild, discSeen, h, det, sc, nb, ba, bp, fl, fd>>

(***************************************************************************)
(* The bubbletea event loop: Model.Init, then one Update per message       *)
(***************************************************************************)
\* a flashing session is under way in these states
InSession(st) == st \in {StateWaitingDisconnect, StateWaitingDevice, StateFlashing}

\* run what the handler returned; doneFlash/doneBuild: outcomes consumed.
\* tea.Quit ends Run and with it the process: the detection context has been
\* cancelled, and nothing else of the program remains.
Apply(r, doneFlash, doneBuild) ==
  IF r.cmd.quit
    THEN /\ prog' = "quit"
         /\ ctxDone' = TRUE
         /\ det' = CancelDetection(det)
         /\ m' = NewModel
         /\ listeners' = 0
         /\ flashJob' = NoFlashJob
         /\ nFlash' = 0
         /\ buildJob' = FALSE
         /\ nBuild' = 0
    ELSE /\ prog' = prog
         /\ ctxDone' = ctxDone
         /\ det' = det
         /\ m' = r.m
         /\ listeners' = listeners + (IF r.cmd.listen THEN 1 ELSE 0)
         /\ flashJob' = IF r.cmd.flash # NoPath
                          THEN [present |-> TRUE, file |-> r.cmd.flash,
                                path |-> r.m.devicePath]
                          ELSE flashJob
         /\ nFlash' = nFlash - doneFlash + (IF r.cmd.flash # NoPath THEN 1 ELSE 0)
         /\ buildJob' = (buildJob \/ r.cmd.build)
         /\ nBuild' = nBuild - doneBuild + (IF r.cmd.build THEN 1 ELSE 0)

\* Model.Init: scan (an error leaves the list empty), then startDetection
TeaInit ==
  \E scan \in ScanResults :
    /\ prog = "new"
    /\ prog' = "running"
    /\ m' = SetBuilds(m, scan)
    /\ dpc' = "start"
    /\ ctxDone' = FALSE
    /\ listeners' = 1
    /\ det' = startDetection(det)
    /\ UNCHANGED <<cfg, mounted, dLast, devMsg, workerVars, discSeen, h, sc, nb, ba, bp, fl, fd>>

\* firmware.CheckDocker is called only by startBuild in docker mode
DockerOutcomes == IF cfg.build = "docker" /\ m.showBuildMenu THEN BOOLEAN ELSE {TRUE}

UpdateKey ==
  \E k \in Keys, dockerOk \in DockerOutcomes :
    /\ prog = "running"
    /\ Apply(handleKey(m, cfg, k, dockerOk), 0, 0)
    /\ discSeen' = (InSession(m'.state) /\ discSeen)
    /\ IF prog' = "quit"
         THEN devMsg' = NoDevMsg /\ flashMsg' = NoFlashMsg /\ buildMsg' = NoBuildMsg
         ELSE UNCHANGED <<devMsg, flashMsg, buildMsg>>
    /\ UNCHANGED <<cfg, mounted, dpc, dLast, h, sc, nb, ba, bp, fl, fd>>

UpdateDeviceEvent ==
  /\ prog = "running"
  /\ devMsg.present
  /\ Apply(onDeviceEvent(m, devMsg.event), 0, 0)
  /\ devMsg' = NoDevMsg
  /\ discSeen' = (InSession(m'.state) /\ (discSeen \/ ~devMsg.event.Connected))
  /\ UNCHANGED <<cfg, mounted, dpc, dLast, flashMsg, buildMsg, h, sc, nb, ba, bp, fl, fd>>

UpdateFlashComplete ==
  /\ prog = "running"
  /\ flashMsg.present
  /\ Apply(onFlashComplete(m, cfg, flashMsg.Success), 1, 0)
  /\ flashMsg' = NoFlashMsg
  /\ discSeen' = (InSession(m'.state) /\ discSeen /\ ~flashMsg.Success)
  /\ UNCHANGED <<cfg, mounted, dpc, dLast, devMsg, buildMsg, h, sc, nb, ba, bp, fl, fd>>

UpdateBuildComplete ==
  \E scan \in ScanResults :
    /\ prog = "running"
    /\ buildMsg.present
    /\ Apply(onBuildComplete(m, buildMsg.Success, scan), 0, 1)
    /\ buildMsg' = NoBuildMsg
    /\ UNCHANGED <<cfg, mounted, dpc, dLast, devMsg, flashMsg, discSeen, h, sc, nb, ba, bp, fl, fd>>

Next ==
  \/ Mount
  \/ Unmount
  \/ DetectStart
  \/ DetectTick
  \/ DetectDone
  \/ ListenReceive
  \/ FlasherRun
  \/ BuilderRun
  \/ TeaInit
  \/ UpdateKey
  \/ UpdateDeviceEvent
  \/ UpdateFlashComplete
  \/ UpdateBuildComplete

Spec == Init /\ [][Next]_vars

\* The program started while the volume is mounted.  h.stayed, which
\* Unmount clears, here tells that the volume has not been unmounted since
\* the program started.
InitPlugged ==
  /\ cfg \in Configs
  /\ m = NewModel
  /\ prog = "new"
  /\ mounted \in (SUBSET PathSet) \ {{}}
  /\ dpc = "none"
  /\ dLast = NoEvent
  /\ ctxDone = FALSE
  /\ listeners = 0
  /\ devMsg = NoDevMsg
  /\ flashJob = NoFlashJob
  /\ flashMsg = NoFlashMsg
  /\ nFlash = 0
  /\ buildJob = FALSE
  /\ buildMsg = NoBuildMsg
  /\ nBuild = 0
  /\ discSeen = FALSE
  /\ bp = NoProgress
  /\ fl = NoFlash
  /\ fd = NoFind
  /\ h = [HeadlessIdle EXCEPT !.stayed = TRUE]
  /\ det = NoDetection
  /\ sc = NoScan
  /\ nb = NoBuild
  /\ ba = NoBuildAll

SpecPlugged == InitPlugged /\ [][Next]_vars

(***************************************************************************)
(* runHeadless (--no-tui)                                                  *)
(***************************************************************************)
tuiVars ==
  <<m, prog, listeners, devMsg, workerVars, discSeen, det, sc, nb, ba, bp, fl, fd>>

InitHeadless ==
  /\ cfg \in Configs
  /\ m = NewModel
  /\ prog = "headless"
  /\ mounted \in SUBSET PathSet
  /\ dpc = "none"
  /\ dLast = NoEvent
  /\ ctxDone = FALSE
  /\ listeners = 0
  /\ devMsg = NoDevMsg
  /\ flashJob = NoFlashJob
  /\ flashMsg = NoFlashMsg
  /\ nFlash = 0
  /\ buildJob = FALSE
  /\ buildMsg = NoBuildMsg
  /\ nBuild = 0
  /\ discSeen = FALSE
  /\ bp = NoProgress
  /\ fl = NoFlash
  /\ fd = NoFind
  /\ h = [HeadlessIdle EXCEPT !.pc = "scan"]
  /\ det = NoDetection
  /\ sc = NoScan
  /\ nb = NoBuild
  /\ ba = NoBuildAll

\* scanner.Scan; an error or an empty result ends the run
HScan ==
  \E scan \in ScanResults, scanOk \in BOOLEAN :
    /\ h.pc = "scan"
    /\ h' = IF ~scanOk \/ Len(scan) = 0
              THEN [h EXCEPT !.pc = "error"]
              ELSE [h EXCEPT !.pc = "resolve", !.builds = scan]
    /\ UNCHANGED <<cfg, mounted, detVars, tuiVars>>

\* top of the loop body: resolve the side's file, then start a new Detect
\* under a fresh context (the previous goroutine was cancelled and is gone)
HResolve ==
  /\ h.pc = "resolve"
  /\ LET filePath == HeadlessResolveFile(h.builds[1].Files, FlashSides(cfg)[h.side])
     IN  IF filePath = NoPath
           THEN /\ h' = [h EXCEPT !.pc = "error"]
                /\ UNCHANGED detVars
           ELSE /\ h' = [h EXCEPT !.pc = "wait", !.filePath = filePath,
                                  !.devicePath = ""]
                /\ dpc' = "start"
                /\ dLast' = NoEvent
                /\ ctxDone' = FALSE
  /\ UNCHANGED <<cfg, mounted, tuiVars>>

\* for event := range events: a connected event ends the loop, cancel()
HReceive ==
  /\ h.pc = "wait"
  /\ dpc = "send"
  /\ dpc' = "poll"
  /\ IF dLast.Connected
       THEN /\ h' = [h EXCEPT !.pc = IF dLast.Path = "" THEN "error" ELSE "flash",
                              !.devicePath = dLast.Path]
            /\ ctxDone' = TRUE
       ELSE /\ h' = [h EXCEPT !.sawDisc = TRUE]
            /\ UNCHANGED ctxDone
  /\ UNCHANGED <<cfg, mounted, dLast, tuiVars>>

\* the 5-minute deadline of context.WithTimeout passes
HTimeout ==
  /\ h.pc = "wait"
  /\ ~ctxDone
  /\ ctxDone' = TRUE
  /\ UNCHANGED <<cfg, mounted, dpc, dLast, tuiVars, h>>

\* the channel was closed: the range loop ends with devicePath empty
HClosed ==
  /\ h.pc = "wait"
  /\ dpc = "closed"
  /\ h' = [h EXCEPT !.pc = "error"]
  /\ UNCHANGED <<cfg, mounted, detVars, tuiVars>>

\* flasher.Flash; success needs the destination directory to exist
HFlash ==
  \E ok \in BOOLEAN :
    /\ h.pc = "flash"
    /\ ok => h.devicePath \in mounted
    /\ h' = IF ~ok THEN [h EXCEPT !.pc = "error"]
            ELSE [h EXCEPT !.flashed = Append(@, h.filePath),
                           !.sawDisc = FALSE, !.stayed = TRUE,
                           !.side = h.side + 1,
                           !.pc = IF h.side = Len(FlashSides(cfg))
                                    THEN "done" ELSE "resolve"]
    /\ UNCHANGED <<cfg, mounted, detVars, tuiVars>>

NextHeadless ==
  \/ Mount
  \/ Unmount
  \/ DetectStart
  \/ DetectTick
  \/ DetectDone
  \/ HScan
  \/ HResolve
  \/ HReceive
  \/ HTimeout
  \/ HClosed
  \/ HFlash

SpecHeadless == InitHeadless /\ [][NextHeadless]_vars

(***************************************************************************)
(* Scanner.Scan on a firmware directory, under a context that may be       *)
(* cancelled at any moment                                                 *)
(***************************************************************************)
InitScan ==
  /\ cfg = [type |-> "unibody", sides |-> <<>>, build |-> "off"]
  /\ m = NewModel
  /\ prog = "scan"
  /\ mounted = {}
  /\ dpc = "none"
  /\ dLast = NoEvent
  /\ ctxDone = FALSE
  /\ listeners = 0
  /\ devMsg = NoDevMsg
  /\ flashJob = NoFlashJob
  /\ flashMsg = NoFlashMsg
  /\ nFlash = 0
  /\ buildJob = FALSE
  /\ buildMsg = NoBuildMsg
  /\ nBuild = 0
  /\ discSeen = FALSE
  /\ bp = NoProgress
  /\ fl = NoFlash
  /\ fd = NoFind
  /\ h = HeadlessIdle
  /\ det = NoDetection
  /\ \E r \in RootListings, e \in BOOLEAN :
        sc = [NoScan EXCEPT !.pc = "begin", !.root = r, !.exists = e]
  /\ nb = NoBuild
  /\ ba = NoBuildAll

scanFrame ==
  UNCHANGED <<cfg, m, prog, mounted, detVars, listeners, devMsg, workerVars,
              discSeen, h, det, nb, ba, bp, fl, fd>>

\* the caller cancels the context
ScanCancel ==
  /\ sc.pc \notin {"off", "done"}
  /\ ~sc.cancelled
  /\ sc' = [sc EXCEPT !.cancelled = TRUE]
  /\ scanFrame

\* the return of a context error
ScanAbort(s) == [s EXCEPT !.pc = "done", !.err = TRUE, !.fired = TRUE,
                          !.result = <<>>]

\* ctx.Err() at the start, then os.ReadDir of the firmware directory
ScanBegin ==
  /\ sc.pc = "begin"
  /\ sc' = IF sc.cancelled THEN ScanAbort(sc)
           ELSE IF ~sc.exists THEN [sc EXCEPT !.pc = "done"]
           ELSE [sc EXCEPT !.pc = "flat"]
  /\ scanFrame

\* scanDirectory of the firmware directory itself: the flat build
ScanFlat ==
  /\ sc.pc = "flat"
  /\ sc' = IF sc.cancelled THEN ScanAbort(sc)
           ELSE LET flatFiles == scanDirectory(sc.root)
                IN  [sc EXCEPT !.pc = "loop", !.i = 1,
                               !.builds = IF Len(flatFiles) > 0
                                            THEN <<Build(<<>>, flatFiles)>>
                                            ELSE <<>>]
  /\ scanFrame

\* top of the loop over the entries: ctx.Err(), IsDir, isDateDir
ScanEntry ==
  /\ sc.pc = "loop"
  /\ sc.i <= Len(sc.root)
  /\ sc' = IF sc.cancelled THEN ScanAbort(sc)
           ELSE IF ~sc.root[sc.i].isDir \/ ~isDateDir(sc.root[sc.i].name)
                  THEN [sc EXCEPT !.i = sc.i + 1]
                  ELSE [sc EXCEPT !.pc = "sub"]
  /\ scanFrame

\* scanDirectory of the dated directory; on its error the loop continues
ScanSub ==
  /\ sc.pc = "sub"
  /\ LET e == sc.root[sc.i]
         files == scanDirectory(e.listing)
     IN  sc' = IF sc.cancelled
                 THEN [sc EXCEPT !.pc = "loop", !.i = sc.i + 1, !.fired = TRUE]
               ELSE IF ~e.readable
                 THEN [sc EXCEPT !.pc = "loop", !.i = sc.i + 1]
               ELSE [sc EXCEPT !.pc = "loop", !.i = sc.i + 1,
                               !.builds = IF Len(files) > 0
                                            THEN Append(@, Build(e.name, files))
                                            ELSE @]
  /\ scanFrame

\* after the loop: sort.Slice, return builds, nil
ScanReturn ==
  /\ sc.pc = "loop"
  /\ sc.i > Len(sc.root)
  /\ \E sorted \in SortSlice(sc.builds) :
        sc' = [sc EXCEPT !.pc = "done", !.result = sorted]
  /\ scanFrame

NextScan ==
  \/ ScanCancel
  \/ ScanBegin
  \/ ScanFlat
  \/ ScanEntry
  \/ ScanSub
  \/ ScanReturn

SpecScan == InitScan /\ [][NextScan]_vars

(***************************************************************************)
(* Builder.Build (native): the loop over the lines of the build command    *)
(***************************************************************************)
\* strconv.Atoi on a string of digits
RECURSIVE Atoi(_)
Atoi(d) ==
  IF d = <<>> THEN 0
  ELSE 10 * Atoi(SubSeq(d, 1, Len(d) - 1))
         + (CHOOSE k \in 0..9 : DateDigits[k + 1] = d[Len(d)])

\* an output line: marker tells whether progressRegex matches it, cur and
\* tot are the two groups of digits
MarkerLine(cur, tot) == [marker |-> TRUE, cur |-> cur, tot |-> tot]
OtherLine == [marker |-> FALSE, cur |-> <<>>, tot |-> <<>>]

OutputLines ==
  { MarkerLine(c, t) : c \in {<<"1">>, <<"3">>, <<"5">>, <<"6">>, <<"1", "0">>},
                       t \in {<<"0">>, <<"1", "0">>, <<"2", "0">>} }
  \cup {OtherLine}

InitNativeBuild ==
  /\ cfg = [type |-> "split", sides |-> <<>>, build |-> "native"]
  /\ m = NewModel
  /\ prog = "build"
  /\ mounted = {}
  /\ dpc = "none"
  /\ dLast = NoEvent
  /\ ctxDone = FALSE
  /\ listeners = 0
  /\ devMsg = NoDevMsg
  /\ flashJob = NoFlashJob
  /\ flashMsg = NoFlashMsg
  /\ nFlash = 0
  /\ buildJob = FALSE
  /\ buildMsg = NoBuildMsg
  /\ nBuild = 0
  /\ discSeen = FALSE
  /\ bp = NoProgress
  /\ fl = NoFlash
  /\ fd = NoFind
  /\ h = HeadlessIdle
  /\ det = NoDetection
  /\ sc = NoScan
  /\ nb = [NoBuild EXCEPT !.pc = "start"]
  /\ ba = NoBuildAll

buildFrame ==
  UNCHANGED <<cfg, m, prog, mounted, detVars, listeners, devMsg, workerVars,
              discSeen, h, det, sc, ba, bp, fl, fd>>

\* cmd.StdoutPipe(), cmd.Start(): Start fails on a context that is done and
\* closes the pipe when it fails
BuildStart ==
  \E pipeOk \in BOOLEAN, startOk \in BOOLEAN :
    /\ nb.pc = "start"
    /\ nb' = IF ~pipeOk THEN [nb EXCEPT !.pc = "done", !.result = "failed"]
             ELSE IF nb.cancelled
               THEN [nb EXCEPT !.pc = "done", !.result = "cancelled"]
             ELSE IF ~startOk THEN [nb EXCEPT !.pc = "done", !.result = "failed"]
             ELSE [nb EXCEPT !.pc = "read", !.child = "running", !.pipe = TRUE]
    /\ buildFrame

\* the caller cancels the context of the build
BuildCancel ==
  /\ nb.pc \in {"start", "read"}
  /\ ~nb.cancelled
  /\ nb' = [nb EXCEPT !.cancelled = TRUE]
  /\ buildFrame

\* variant: the percent is taken of the total of the line itself
MarkerPercent_lineTotal(line, maxTotal) ==
  LET current == Atoi(line.cur)
      total == Atoi(line.tot)
  IN  IF total > 0 THEN (current * 100) \div total ELSE 0

\* the percent a progress-marker line is reported with
MarkerPercent(line, maxTotal) ==
  LET current == Atoi(line.cur)
      total == Atoi(line.tot)
      newMax == IF total > maxTotal THEN total ELSE maxTotal
  IN  IF newMax > 0 THEN (current * 100) \div newMax ELSE 0

\* scanner.Scan() returns a line: the context check (cmd.Process.Kill() and
\* return on a context that is done), then the callback.  The build tool
\* counts its finished steps upwards.
BuildLine ==
  \E line \in OutputLines :
    /\ nb.pc = "read"
    /\ nb.n < MaxLines
    /\ line.marker => Atoi(line.cur) >= nb.current
    /\ nb' = IF nb.cancelled
               THEN [nb EXCEPT !.pc = "done", !.result = "cancelled",
                               !.child = "killed"]
             ELSE IF line.marker
               THEN [nb EXCEPT !.n = nb.n + 1,
                               !.current = Atoi(line.cur),
                               !.maxTotal = IF Atoi(line.tot) > nb.maxTotal
                                              THEN Atoi(line.tot) ELSE nb.maxTotal,
                               !.percent = MarkerPercent(line, nb.maxTotal),
                               !.line = line,
                               !.seen = nb.seen \cup {Atoi(line.tot)}]
             ELSE [nb EXCEPT !.n = nb.n + 1, !.line = line]
    /\ buildFrame

\* the output ends, the child having exited or having been killed by the
\* watcher of its context: cmd.Wait() closes the pipe, waits for the child
\* and decides the result; a killed child makes it an *ExitError
BuildWait ==
  \E ok \in BOOLEAN :
    /\ nb.pc = "read"
    /\ nb' = [nb EXCEPT !.pc = "done", !.child = "reaped", !.pipe = FALSE,
                        !.result = IF ok /\ ~nb.cancelled THEN "success"
                                   ELSE "failed"]
    /\ buildFrame

NextNativeBuild ==
  \/ BuildStart
  \/ BuildCancel
  \/ BuildLine
  \/ BuildWait

SpecNativeBuild == InitNativeBuild /\ [][NextNativeBuild]_vars

(***************************************************************************)
(* DockerBuilder.BuildAll                                                  *)
(***************************************************************************)
\* the side lists BuildAll may be given
TargetLists ==
  UNION { [1..n -> {SideNames[k] : k \in 1..Len(SideNames)}] : n \in 0..MaxTargets }

InitBuildAll ==
  /\ cfg = [type |-> "split", sides |-> <<>>, build |-> "docker"]
  /\ m = NewModel
  /\ prog = "buildall"
  /\ mounted = {}
  /\ dpc = "none"
  /\ dLast = NoEvent
  /\ ctxDone = FALSE
  /\ listeners = 0
  /\ devMsg = NoDevMsg
  /\ flashJob = NoFlashJob
  /\ flashMsg = NoFlashMsg
  /\ nFlash = 0
  /\ buildJob = FALSE
  /\ buildMsg = NoBuildMsg
  /\ nBuild = 0
  /\ discSeen = FALSE
  /\ bp = NoProgress
  /\ fl = NoFlash
  /\ fd = NoFind
  /\ h = HeadlessIdle
  /\ det = NoDetection
  /\ sc = NoScan
  /\ nb = NoBuild
  /\ \E sides \in TargetLists :
        ba = [NoBuildAll EXCEPT !.pc = "loop", !.sides = sides,
                                !.results = [k \in 1..Len(sides) |-> "zero"]]

buildAllFrame ==
  UNCHANGED <<cfg, m, prog, mounted, detVars, listeners, devMsg, workerVars,
              discSeen, h, det, sc, nb, bp, fl, fd>>

\* variant: the loop goes on after a failed build
BuildAllSide_noStop ==
  \E ok \in BOOLEAN :
    /\ ba.pc = "loop"
    /\ ba.i <= Len(ba.sides)
    /\ ba' = [ba EXCEPT !.started = Append(@, ba.sides[ba.i]),
                        !.results[ba.i] = IF ok THEN "ok" ELSE "fail",
                        !.i = ba.i + 1]
    /\ buildAllFrame

\* one pass of the loop: results[i] = b.Build(ctx, side, ...); a failure
\* returns results[:i+1]
BuildAllSide ==
  \E ok \in BOOLEAN :
    /\ ba.pc = "loop"
    /\ ba.i <= Len(ba.sides)
    /\ LET results == [ba.results EXCEPT ![ba.i] = IF ok THEN "ok" ELSE "fail"]
           started == Append(ba.started, ba.sides[ba.i])
       IN  ba' = IF ok
                   THEN [ba EXCEPT !.started = started, !.results = results,
                                   !.i = ba.i + 1]
                   ELSE [ba EXCEPT !.started = started, !.results = results,
                                   !.ret = SubSeq(results, 1, ba.i),
                                   !.pc = "done"]
    /\ buildAllFrame

\* after the loop: return results
BuildAllReturn ==
  /\ ba.pc = "loop"
  /\ ba.i > Len(ba.sides)
  /\ ba' = [ba EXCEPT !.ret = ba.results, !.pc = "done"]
  /\ buildAllFrame

NextBuildAll ==
  \/ BuildAllSide
  \/ BuildAllReturn

SpecBuildAll == InitBuildAll /\ [][NextBuildAll]_vars

(***************************************************************************)
(* The build command of startBuild: the closure that runs EnsureImage and  *)
(* Build with a callback that sends on m.buildProgress, and the            *)
(* listenForBuildProgress commands that receive from it.  The orchestrator *)
(* handles a buildProgressMsg when it gets to it, or not at all.           *)
(***************************************************************************)
InitProgress ==
  /\ cfg \in {c \in Configs : c.build # "off"}
  /\ m = [NewModel EXCEPT !.state = StateBuilding]
  /\ prog = "progress"
  /\ mounted = {}
  /\ dpc = "none"
  /\ dLast = NoEvent
  /\ ctxDone = FALSE
  /\ listeners = 0
  /\ devMsg = NoDevMsg
  /\ flashJob = NoFlashJob
  /\ flashMsg = NoFlashMsg
  /\ nFlash = 0
  /\ buildJob = FALSE
  /\ buildMsg = NoBuildMsg
  /\ nBuild = 0
  /\ discSeen = FALSE
  /\ h = HeadlessIdle
  /\ det = NoDetection
  /\ sc = NoScan
  /\ nb = NoBuild
  /\ ba = NoBuildAll
  /\ bp = [NoProgress EXCEPT
             !.pc = IF cfg.build = "docker" THEN "ensure" ELSE "build",
             !.listening = TRUE]
  /\ fl = NoFlash
  /\ fd = NoFind

progressFrame ==
  UNCHANGED <<cfg, m, prog, mounted, detVars, listeners, devMsg, workerVars,
              discSeen, h, det, sc, nb, ba, fl, fd>>

\* EnsureImage or Build calls the progress callback
ProgressCall ==
  /\ bp.pc \in {"ensure", "build"}
  /\ bp.sending = 0
  /\ bp.lines < MaxProgress
  /\ bp' = [bp EXCEPT !.lines = bp.lines + 1, !.sending = bp.lines + 1]
  /\ progressFrame

\* variant: the callback sends with a plain channel send
ProgressSend_blocking ==
  /\ bp.sending # 0
  /\ Len(bp.buf) < ProgressCap
  /\ bp' = [bp EXCEPT !.buf = Append(bp.buf, bp.sending), !.sending = 0]
  /\ progressFrame

\* the callback: select { case m.buildProgress <- p: default: }
ProgressSend ==
  /\ bp.sending # 0
  /\ bp' = IF Len(bp.buf) < ProgressCap
             THEN [bp EXCEPT !.buf = Append(bp.buf, bp.sending), !.sending = 0]
             ELSE [bp EXCEPT !.dropped = bp.dropped + 1, !.sending = 0]
  /\ progressFrame

\* EnsureImage returns: on an error the closure returns its message at once
EnsureReturn ==
  \E ok \in BOOLEAN :
    /\ bp.pc = "ensure"
    /\ bp.sending = 0
    /\ bp' = IF ok THEN [bp EXCEPT !.pc = "build"]
             ELSE [bp EXCEPT !.pc = "done", !.outcome = "failed"]
    /\ progressFrame

\* Build returns: close(m.buildProgress), then the buildCompleteMsg
BuildReturn ==
  \E ok \in BOOLEAN :
    /\ bp.pc = "build"
    /\ bp.sending = 0
    /\ bp' = [bp EXCEPT !.pc = "done", !.closed = TRUE,
                        !.outcome = IF ok THEN "success" ELSE "failed"]
    /\ progressFrame

\* listenForBuildProgress: progress, ok := <-m.buildProgress
ListenProgress ==
  /\ bp.listening
  /\ bp.msg = 0
  /\ \/ /\ bp.buf # <<>>
        /\ bp' = [bp EXCEPT !.msg = Head(bp.buf), !.buf = Tail(bp.buf),
                            !.listening = FALSE]
     \/ /\ bp.buf = <<>>
        /\ bp.closed
        /\ bp' = [bp EXCEPT !.listening = FALSE]
  /\ progressFrame

\* Update(buildProgressMsg): m.buildPercent, then listen again
UpdateBuildProgress ==
  /\ bp.msg # 0
  /\ bp' = [bp EXCEPT !.percent = bp.msg, !.msg = 0, !.listening = TRUE]
  /\ progressFrame

\* the percent shown at the end of a successful build
FullPercent == 100

\* Update(buildCompleteMsg): m.buildPercent = 100 on success; no command
HandleBuildComplete ==
  /\ bp.outcome # ""
  /\ ~bp.handled
  /\ bp' = [bp EXCEPT !.handled = TRUE,
                      !.percent = IF bp.outcome = "success" THEN FullPercent
                                  ELSE bp.percent]
  /\ progressFrame

NextProgress ==
  \/ ProgressCall
  \/ ProgressSend
  \/ EnsureReturn
  \/ BuildReturn
  \/ ListenProgress
  \/ UpdateBuildProgress
  \/ HandleBuildComplete

SpecProgress == InitProgress /\ [][NextProgress]_vars

\* the closure's goroutine runs, and the build tool comes to an end; nothing
\* is assumed of the listener or of the orchestrator
SpecProgressLive ==
  /\ SpecProgress
  /\ WF_vars(ProgressSend)
  /\ WF_vars(EnsureReturn)
  /\ WF_vars(BuildReturn)

(***************************************************************************)
(* Flasher.Flash and copyWithContext, one system call at a time.  Lengths  *)
(* are counted in a unit of which the copy buffer holds ChunkSize.         *)
(***************************************************************************)
\* an existing destination file has this length
OldLength == 1

InitFlash ==
  /\ cfg = [type |-> "split", sides |-> <<>>, build |-> "off"]
  /\ m = NewModel
  /\ prog = "flash"
  /\ mounted = {}
  /\ dpc = "none"
  /\ dLast = NoEvent
  /\ ctxDone = FALSE
  /\ listeners = 0
  /\ devMsg = NoDevMsg
  /\ flashJob = NoFlashJob
  /\ flashMsg = NoFlashMsg
  /\ nFlash = 0
  /\ buildJob = FALSE
  /\ buildMsg = NoBuildMsg
  /\ nBuild = 0
  /\ discSeen = FALSE
  /\ h = HeadlessIdle
  /\ det = NoDetection
  /\ sc = NoScan
  /\ nb = NoBuild
  /\ ba = NoBuildAll
  /\ bp = NoProgress
  /\ fd = NoFind
  /\ \E c \in BOOLEAN, e \in BOOLEAN, d \in BOOLEAN,
        sz \in 0..MaxSize, ct \in 0..MaxSize, old \in {-1, OldLength} :
       /\ ~e => (sz = 0 /\ ct = 0)
       /\ ~d => old = -1
       /\ fl = [NoFlash EXCEPT !.pc = "check", !.cancelled = c,
                               !.cancelled0 = c, !.srcExists = e,
                               !.size = sz, !.content = ct,
                               !.dirExists = d, !.dst = old, !.dst0 = old]

flashFrame ==
  UNCHANGED <<cfg, m, prog, mounted, detVars, listeners, devMsg, workerVars,
              discSeen, h, det, sc, nb, ba, bp, fd>>

\* return: the deferred src.Close() and dst.Close() run
FlashReturn(f, res) ==
  [f EXCEPT !.pc = "done", !.result = res, !.srcOpen = FALSE,
            !.dstOpen = FALSE]

\* the caller cancels the context while Flash runs
FlashCancel ==
  /\ fl.pc \in {"check", "open", "create", "copy", "verify"}
  /\ ~fl.cancelled
  /\ fl' = [fl EXCEPT !.cancelled = TRUE]
  /\ flashFrame

\* variant: Flash does not look at the context before it opens the files
FlashCheck_noCheck(f) == [f EXCEPT !.pc = "open"]

\* if err := ctx.Err(); err != nil { return FlashResult{Error: err} }
FlashCheck(f) ==
  IF f.cancelled THEN FlashReturn(f, FlashResult(FALSE, "cancelled", "", 0))
  ELSE [f EXCEPT !.pc = "open"]

FlashEnter ==
  /\ fl.pc = "check"
  /\ fl' = FlashCheck(fl)
  /\ flashFrame

\* os.Open(srcPath), src.Stat()
FlashOpen ==
  \E openOk \in BOOLEAN, statOk \in BOOLEAN :
    /\ fl.pc = "open"
    /\ openOk => fl.srcExists
    /\ fl' = IF ~openOk
               THEN FlashReturn([fl EXCEPT !.ioErr = fl.srcExists],
                                FlashResult(FALSE, "open source", "", 0))
             ELSE IF ~statOk
               THEN FlashReturn([fl EXCEPT !.opens = fl.opens + 1, !.ioErr = TRUE],
                                FlashResult(FALSE, "stat source", "", 0))
             ELSE [fl EXCEPT !.pc = "create", !.srcOpen = TRUE,
                             !.opens = fl.opens + 1]
    /\ flashFrame

\* os.Create(filepath.Join(devicePath, filepath.Base(srcPath)))
FlashCreate ==
  \E createOk \in BOOLEAN :
    /\ fl.pc = "create"
    /\ createOk => fl.dirExists
    /\ fl' = IF ~createOk
               THEN FlashReturn([fl EXCEPT !.ioErr = fl.dirExists],
                                FlashResult(FALSE, "create destination", "", 0))
             ELSE [fl EXCEPT !.pc = "copy", !.dst = 0, !.dstOpen = TRUE,
                             !.opens = fl.opens + 1]
    /\ flashFrame

\* variant: the copy counts the bytes it read
CopyRound_countsRead(f, nr, rerr, nw, werr) ==
  LET w == IF nr > 0 THEN f.written + nr ELSE f.written
      f1 == [f EXCEPT !.read = f.read + nr, !.written = w,
                      !.dst = f.dst + (IF nr > 0 THEN nw ELSE 0)]
  IN  IF nr > 0 /\ werr
        THEN FlashReturn([f1 EXCEPT !.ioErr = TRUE],
                         FlashResult(FALSE, "copy", "write", w))
      ELSE IF nr > 0 /\ nr # nw
        THEN FlashReturn([f1 EXCEPT !.ioErr = TRUE],
                         FlashResult(FALSE, "copy", "short write", w))
      ELSE IF rerr = "EOF" THEN [f1 EXCEPT !.pc = "verify"]
      ELSE IF rerr # "" 
        THEN FlashReturn([f1 EXCEPT !.ioErr = TRUE],
                         FlashResult(FALSE, "copy", "read", w))
      ELSE f1

\* one round of the loop of copyWithContext after its context check:
\* src.Read gave nr bytes and rerr, dst.Write took nw of them and gave werr
CopyRound(f, nr, rerr, nw, werr) ==
  LET w == IF nr > 0 /\ nw > 0 THEN f.written + nw ELSE f.written
      f1 == [f EXCEPT !.read = f.read + nr, !.written = w,
                      !.dst = f.dst + (IF nr > 0 THEN nw ELSE 0)]
  IN  IF nr > 0 /\ werr
        THEN FlashReturn([f1 EXCEPT !.ioErr = TRUE],
                         FlashResult(FALSE, "copy", "write", w))
      ELSE IF nr > 0 /\ nr # nw
        THEN FlashReturn([f1 EXCEPT !.ioErr = TRUE],
                         FlashResult(FALSE, "copy", "short write", w))
      ELSE IF rerr = "EOF" THEN [f1 EXCEPT !.pc = "verify"]
      ELSE IF rerr # "" 
        THEN FlashReturn([f1 EXCEPT !.ioErr = TRUE],
                         FlashResult(FALSE, "copy", "read", w))
      ELSE f1

\* what src.Read can give with left bytes to come: a full buffer or what is
\* left, the end of the file, or an error
Reads(left) ==
  IF left > 0
    THEN {[nr |-> IF left < ChunkSize THEN left ELSE ChunkSize, err |-> ""],
          [nr |-> 0, err |-> "read"]}
    ELSE {[nr |-> 0, err |-> "EOF"], [nr |-> 0, err |-> "read"]}

\* the loop of copyWithContext: ctx.Err() first, then one round
CopyChunk ==
  /\ fl.pc = "copy"
  /\ IF fl.cancelled
       THEN fl' = FlashReturn(fl, FlashResult(FALSE, "copy", "cancelled",
                                              fl.written))
       ELSE \E r \in Reads(fl.content - fl.read) :
              \E nw \in 0..r.nr, werr \in BOOLEAN :
                /\ r.nr = 0 => ~werr
                /\ fl' = CopyRound(fl, r.nr, r.err, nw, werr)
  /\ flashFrame

\* variant: the outcome of the copy is not compared with the size
FlashVerify_noSizeCheck(f, syncOk) ==
  IF ~syncOk
    THEN FlashReturn([f EXCEPT !.ioErr = TRUE],
                     FlashResult(FALSE, "sync", "", f.written))
  ELSE FlashReturn([f EXCEPT !.synced = TRUE],
                   FlashResult(TRUE, "", "", f.written))

\* written != srcInfo.Size(), then dst.Sync()
FlashVerify(f, syncOk) ==
  IF f.written # f.size
    THEN FlashReturn(f, FlashResult(FALSE, "size mismatch", "", f.written))
  ELSE IF ~syncOk
    THEN FlashReturn([f EXCEPT !.ioErr = TRUE],
                     FlashResult(FALSE, "sync", "", f.written))
  ELSE FlashReturn([f EXCEPT !.synced = TRUE],
                   FlashResult(TRUE, "", "", f.written))

FlashFinish ==
  \E syncOk \in BOOLEAN :
    /\ fl.pc = "verify"
    /\ fl' = FlashVerify(fl, syncOk)
    /\ flashFrame

NextFlash ==
  \/ FlashCancel
  \/ FlashEnter
  \/ FlashOpen
  \/ FlashCreate
  \/ CopyChunk
  \/ FlashFinish

SpecFlash == InitFlash /\ [][NextFlash]_vars

(***************************************************************************)
(* linuxDetector.findDevice called by itself on a list of candidate paths  *)
(* of which any may exist                                                  *)
(***************************************************************************)
PathPool == {"/run/media/u/KB", "/media/u/KB", "/mnt/KB"}

\* the lists of candidates, in priority order
CandidateLists ==
  UNION {[1..n -> PathPool] : n \in 0..MaxCandidates}

InitFind ==
  /\ cfg = [type |-> "unibody", sides |-> <<>>, build |-> "off"]
  /\ m = NewModel
  /\ prog = "find"
  /\ mounted = {}
  /\ dpc = "none"
  /\ dLast = NoEvent
  /\ ctxDone = FALSE
  /\ listeners = 0
  /\ devMsg = NoDevMsg
  /\ flashJob = NoFlashJob
  /\ flashMsg = NoFlashMsg
  /\ nFlash = 0
  /\ buildJob = FALSE
  /\ buildMsg = NoBuildMsg
  /\ nBuild = 0
  /\ discSeen = FALSE
  /\ h = HeadlessIdle
  /\ det = NoDetection
  /\ sc = NoScan
  /\ nb = NoBuild
  /\ ba = NoBuildAll
  /\ bp = NoProgress
  /\ fl = NoFlash
  /\ \E ps \in CandidateLists, ex \in SUBSET PathPool :
       fd = [NoFind EXCEPT !.pc = "call", !.paths = ps, !.exists = ex]

\* connected, path := d.findDevice(paths)
FindCall ==
  /\ fd.pc = "call"
  /\ LET r == findDeviceIn(fd.paths, fd.exists)
     IN  fd' = [fd EXCEPT !.pc = "done", !.connected = r.Connected,
                          !.path = r.Path]
  /\ UNCHANGED <<cfg, m, prog, mounted, detVars, listeners, devMsg,
                 workerVars, discSeen, h, det, sc, nb, ba, bp, fl>>

NextFind == FindCall

SpecFind == InitFind /\ [][NextFind]_vars

(***************************************************************************)
(* The Detector by itself, with a consumer as in detector_test.go: it      *)
(* receives when it likes, stops receiving when it likes and cancels when  *)
(* it likes.  devMsg keeps the event received last, listeners = 1 while a  *)
(* receive is waiting, prog = "left" once the consumer receives no more.   *)
(***************************************************************************)
InitDetect ==
  /\ cfg = [type |-> "unibody", sides |-> <<>>, build |-> "off"]
  /\ m = NewModel
  /\ prog = "detect"
  /\ mounted \in SUBSET PathSet
  /\ dpc = "start"
  /\ dLast = NoEvent
  /\ ctxDone = FALSE
  /\ listeners = 0
  /\ devMsg = NoDevMsg
  /\ flashJob = NoFlashJob
  /\ flashMsg = NoFlashMsg
  /\ nFlash = 0
  /\ buildJob = FALSE
  /\ buildMsg = NoBuildMsg
  /\ nBuild = 0
  /\ discSeen = FALSE
  /\ bp = NoProgress
  /\ fl = NoFlash
  /\ fd = NoFind
  /\ h = HeadlessIdle
  /\ det = NoDetection
  /\ sc = NoScan
  /\ nb = NoBuild
  /\ ba = NoBuildAll

\* the consumer starts a receive: <-events
ConsumerListen ==
  /\ prog = "detect"
  /\ listeners = 0
  /\ listeners' = 1
  /\ UNCHANGED <<cfg, m, prog, mounted, detVars, devMsg, workerVars,
                 discSeen, h, det, sc, nb, ba, bp, fl, fd>>

\* the worker's send meets the waiting receive
ConsumerReceive ==
  /\ prog = "detect"
  /\ listeners = 1
  /\ dpc = "send"
  /\ devMsg' = [present |-> TRUE, event |-> dLast]
  /\ listeners' = 0
  /\ dpc' = "poll"
  /\ UNCHANGED <<cfg, m, prog, mounted, dLast, ctxDone, workerVars,
                 discSeen, h, det, sc, nb, ba, bp, fl, fd>>

\* the waiting receive returns because the channel was closed
ConsumerClosed ==
  /\ prog = "detect"
  /\ listeners = 1
  /\ dpc = "closed"
  /\ listeners' = 0
  /\ UNCHANGED <<cfg, m, prog, mounted, detVars, devMsg, workerVars,
                 discSeen, h, det, sc, nb, ba, bp, fl, fd>>

\* the consumer leaves its receive loop (break, return)
ConsumerLeave ==
  /\ prog = "detect"
  /\ listeners = 0
  /\ prog' = "left"
  /\ UNCHANGED <<cfg, m, mounted, detVars, listeners, devMsg, workerVars,
                 discSeen, h, det, sc, nb, ba, bp, fl, fd>>

\* cancel(), or the deadline of the context passes
Cancel ==
  /\ prog \in {"detect", "left"}
  /\ ~ctxDone
  /\ ctxDone' = TRUE
  /\ UNCHANGED <<cfg, m, prog, mounted, dpc, dLast, listeners, devMsg,
                 workerVars, discSeen, h, det, sc, nb, ba, bp, fl, fd>>

NextDetect ==
  \/ Mount
  \/ Unmount
  \/ DetectStart
  \/ DetectTick
  \/ DetectDone
  \/ ConsumerListen
  \/ ConsumerReceive
  \/ ConsumerClosed
  \/ ConsumerLeave
  \/ Cancel

SpecDetect == InitDetect /\ [][NextDetect]_vars

\* the goroutine is scheduled, and a select whose ctx.Done() case is ready
\* does not pass it over for ever
SpecDetectLive ==
  SpecDetect /\ WF_vars(DetectStart) /\ WF_vars(DetectDone)

(***************************************************************************)
(* Model.startDetection called again on a Model that has a detection       *)
(* running (a flow restart), with the listener as the consumer             *)
(***************************************************************************)
InitRestart ==
  /\ cfg = [type |-> "unibody", sides |-> <<>>, build |-> "off"]
  /\ m = NewModel
  /\ prog = "detect"
  /\ mounted \in SUBSET PathSet
  /\ dpc = "none"
  /\ dLast = NoEvent
  /\ ctxDone = FALSE
  /\ listeners = 0
  /\ devMsg = NoDevMsg
  /\ flashJob = NoFlashJob
  /\ flashMsg = NoFlashMsg
  /\ nFlash = 0
  /\ buildJob = FALSE
  /\ buildMsg = NoBuildMsg
  /\ nBuild = 0
  /\ discSeen = FALSE
  /\ bp = NoProgress
  /\ fl = NoFlash
  /\ fd = NoFind
  /\ h = HeadlessIdle
  /\ det = NoDetection
  /\ sc = NoScan
  /\ nb = NoBuild
  /\ ba = NoBuildAll

\* startDetection: the new worker and channel replace the previous ones in
\* the Model, and a listener for the new channel is returned
StartDetection ==
  /\ prog = "detect"
  /\ Len(det.workers) < MaxDetections
  /\ det' = startDetection(det)
  /\ dpc' = "start"
  /\ dLast' = NoEvent
  /\ ctxDone' = det'.ctxs[det'.workers[Len(det'.workers)]]
  /\ listeners' = 1
  /\ UNCHANGED <<cfg, m, prog, mounted, devMsg, workerVars, discSeen, h, sc, nb, ba, bp, fl, fd>>

\* the quit keys: m.detectCancel()
QuitCancel ==
  /\ prog = "detect"
  /\ det.detectCancel # 0
  /\ ~ctxDone
  /\ det' = CancelDetection(det)
  /\ ctxDone' = det'.ctxs[det'.workers[Len(det'.workers)]]
  /\ UNCHANGED <<cfg, m, prog, mounted, dpc, dLast, listeners, devMsg,
                 workerVars, discSeen, h, sc, nb, ba, bp, fl, fd>>

NextRestart ==
  \/ Mount
  \/ Unmount
  \/ DetectStart
  \/ DetectTick
  \/ DetectDone
  \/ ConsumerListen
  \/ ConsumerReceive
  \/ ConsumerClosed
  \/ StartDetection
  \/ QuitCancel

SpecRestart == InitRestart /\ [][NextRestart]_vars

(***************************************************************************)
(* Properties of Scanner.Scan                                              *)
(***************************************************************************)
\* Scan has returned builds and a nil error
ScanOk == sc.pc = "done" /\ ~sc.err

\* the number a date key of 8 digits denotes
RECURSIVE DateNum(_)
DateNum(d) ==
  IF d = <<>> THEN 0
  ELSE 10 * DateNum(SubSeq(d, 1, Len(d) - 1))
         + (CHOOSE k \in 0..9 : DateDigits[k + 1] = d[Len(d)])

\* C16: Scan returns the dated builds first, by date strictly descending,
\* and the flat build last, whatever the order of the directory entries.
C16_ScanOrder ==
  ScanOk =>
    \A i, j \in 1..Len(sc.result) :
      i < j => /\ sc.result[i].Date # <<>>
               /\ (sc.result[j].Date # <<>> =>
                     DateNum(sc.result[i].Date) > DateNum(sc.result[j].Date))

\* two dated builds, listed oldest first, and the flat build were returned
C16_Witness ==
  /\ ScanOk /\ Len(sc.result) = 3 /\ sc.result[3].Date = <<>>
  /\ sc.builds[2].Date = d_20250102 /\ sc.builds[3].Date = d_20250115

\* C17: when a cancellation check of Scan (at its start, before a
\* subdirectory, at the start of a directory traversal) finds the context
\* cancelled, Scan returns the cancellation error, never builds.
C17_NoPartialResult == (sc.pc = "done" /\ sc.fired) => sc.err

\* directory entry e makes a dated build: a directory named with exactly 8
\* ASCII digits that (can be read and) holds a matching file that is no
\* directory
MakesBuild(e) ==
  /\ e.isDir
  /\ Len(e.name) = 8 /\ \A k \in 1..8 : e.name[k] \in
        {"0", "1", "2", "3", "4", "5", "6", "7", "8", "9"}
  /\ e.readable
  /\ \E k \in 1..Len(e.listing) : ~e.listing[k].isDir /\ e.listing[k].matches

HasBuild(date) == \E k \in 1..Len(sc.result) : sc.result[k].Date = date

\* C18: the result holds the flat build exactly if the firmware directory
\* holds a matching file, a dated build for a subdirectory exactly if it is
\* named with 8 ASCII digits and holds a matching file; no build is empty;
\* a firmware directory that does not exist gives no builds and no error.
C18_ScanContents ==
  /\ (sc.pc = "done" /\ ~sc.exists /\ ~sc.fired) => (~sc.err /\ sc.result = <<>>)
  /\ (ScanOk /\ sc.exists) =>
       /\ HasBuild(<<>>) <=>
            \E k \in 1..Len(sc.root) : ~sc.root[k].isDir /\ sc.root[k].matches
       /\ \A k \in 1..Len(sc.root) :
            HasBuild(sc.root[k].name) <=> MakesBuild(sc.root[k])
       /\ \A k \in 1..Len(sc.result) :
            /\ Len(sc.result[k].Files) > 0
            /\ \/ sc.result[k].Date = <<>>
               \/ \E e \in 1..Len(sc.root) : sc.root[e].name = sc.result[k].Date
            /\ \A l \in 1..Len(sc.result) : l # k =>
                  sc.result[l].Date # sc.result[k].Date

(***************************************************************************)
(* Properties of the builders                                              *)
(***************************************************************************)
\* C19: within one run of the native Build the percent reported for
\* progress-marker lines never decreases, also when the tool reports a
\* larger total partway through.
C19_PercentMonotone == [][nb'.percent >= nb.percent]_vars

\* C20: BuildAll calls Build for the sides in the given order, for none
\* after the first that fails, and returns exactly the results of the
\* sides it built: successes, then the failure if there was one.
C20_BuildAllStopsAtFailure ==
  /\ ba.started = SubSeq(ba.sides, 1, Len(ba.started))
  /\ \A k \in 1..(Len(ba.started) - 1) : ba.results[k] = "ok"
  /\ ba.pc = "done" =>
       /\ Len(ba.ret) = Len(ba.started)
       /\ \A k \in 1..Len(ba.ret) :
            /\ ba.ret[k] = ba.results[k]
            /\ ba.ret[k] # "zero"
            /\ k < Len(ba.ret) => ba.ret[k] = "ok"
       /\ Len(ba.ret) < Len(ba.sides) => ba.ret[Len(ba.ret)] = "fail"

\* the second of three sides failed and two results were returned
C20_Witness ==
  /\ ba.pc = "done" /\ Len(ba.sides) = 3
  /\ ba.ret = <<"ok", "fail">>

(***************************************************************************)
(* Properties of the Detector                                              *)
(***************************************************************************)
\* the worker hands an event to the consumer
Delivery == dpc = "send" /\ dpc' = "poll"

\* the worker comes to a send after a poll of the ticker loop
Emission == dpc = "poll" /\ dpc' = "send"

\* what the worker does in one step, after its first event
C12_Steps ==
  /\ Emission => dLast' = findDevice(mounted) /\ dLast' # dLast
  /\ (dpc = "poll" /\ findDevice(mounted) = dLast) => dpc' # "send"
  /\ Delivery => devMsg'.event = dLast /\ dLast' = dLast
  /\ (Delivery /\ devMsg.present) => devMsg'.event # devMsg.event

\* a poll that differs from the last emitted event emits
C12_ChangeEmits ==
  (dpc = "poll" /\ findDevice(mounted) # dLast) =>
     ENABLED (DetectTick /\ dLast' = findDevice(mounted) /\ dpc' = "send")

C13_NoDeliveryAfterCancel == [][ctxDone => ~Delivery]_vars

\* C14: after the cancellation signal is raised the worker eventually
\* returns and closes the channel, whether a consumer is receiving or not.
C14_CancelTerminates == ctxDone ~> (dpc = "closed")

\* cancelled while blocked in a send that no consumer receives
C14_Witness ==
  /\ prog = "left" /\ ctxDone /\ dpc = "send" /\ listeners = 0

\* the Detect workers whose context has not been cancelled
Uncancelled == {i \in 1..Len(det.workers) : ~det.ctxs[det.workers[i]]}

\* at most one worker is un-cancelled, and no two workers share a context
C15_AtMostOne ==
  /\ Cardinality(Uncancelled) <= 1
  /\ \A i, j \in 1..Len(det.workers) :
        i # j => det.workers[i] # det.workers[j]

\* a step that starts a worker has cancelled every earlier worker's
\* context and gives the new worker a context no earlier worker has
C15_StartStep ==
  Len(det'.workers) > Len(det.workers) =>
    /\ \A i \in 1..Len(det.workers) : det'.ctxs[det.workers[i]]
    /\ \A i \in 1..Len(det.workers) :
          det'.workers[Len(det'.workers)] # det.workers[i]
    /\ ~det'.ctxs[det'.workers[Len(det'.workers)]]

\* C15: the orchestrator owns at most one Detect worker whose context is
\* un-cancelled: startDetection cancels the previous worker's context
\* before it creates the new worker, and every worker has its own context.
C15_OneActiveDetector == [](C15_AtMostOne) /\ [][C15_StartStep]_vars

\* detection was started again while the previous worker was still polling
C15_Witness ==
  /\ Len(det.workers) >= 2 /\ dpc = "start"
  /\ det.ctxs[det.workers[1]] /\ Uncancelled = {Len(det.workers)}

(***************************************************************************)
(* Properties of the orchestrator                                          *)
(***************************************************************************)
\* a step that issues a flash command
Launch == nFlash' = nFlash + 1

\* a step that handles a deviceEventMsg, a flashCompleteMsg
DeviceStep == devMsg.present /\ ~devMsg'.present /\ prog' = "running"
FlashOutcomeStep == flashMsg.present /\ ~flashMsg'.present /\ prog' = "running"

\* a step that handles key k in Idle with no overlay open (handleIdleKey)
IdleKeyStep(k) ==
  /\ prog = "running"
  /\ m.state = StateIdle /\ ~m.showHelp /\ ~m.showDialog /\ ~m.showBuildMenu
  /\ m' = handleKey(m, cfg, k, TRUE).m
  /\ UNCHANGED <<prog, mounted, dpc, dLast, listeners, devMsg, flashMsg,
                 buildMsg, h, det, sc, nb, ba, bp, fl, fd>>

\* the target of a factory reset: "<side> (reset)"
IsResetTarget(t) ==
  /\ Len(t) >= Len(s_resetSuffix)
  /\ SubSeq(t, Len(t) - Len(s_resetSuffix) + 1, Len(t)) = s_resetSuffix

\* the session that mm is in, or was last in, was started by a factory reset
ResetSession(mm) ==
  \/ IsResetTarget(mm.flashTarget)
  \/ Len(mm.completedSteps) > 0 /\ IsResetTarget(mm.completedSteps[1])

TwoSides == Len(FlashSides(cfg)) = 2

\* C1: within a session the flow enters Flashing for a side after the
\* first only if a disconnect event was handled after the previous side's
\* successful outcome.
C1_NextSideAfterDisconnect ==
  [][(m'.state = StateFlashing /\ m.state # StateFlashing /\ m'.flashIndex >= 1)
       => discSeen]_vars

\* a later side is being flashed
C1_Witness == m.state = StateFlashing /\ m.flashIndex >= 1 /\ nFlash = 1

\* the steps of a normal session of a two-side keyboard
C2_SessionSteps ==
  (TwoSides /\ ~ResetSession(m')) =>
    /\ ((\E k \in {"f", "enter"} : IdleKeyStep(k))
          /\ HasSelected(m) /\ m.deviceStatus = DeviceConnected
        => m'.state = StateWaitingDisconnect)
    /\ (DeviceStep /\ m.state = StateWaitingDisconnect /\ ~devMsg.event.Connected
        => m'.state = StateWaitingDevice)
    /\ (DeviceStep /\ m.state = StateWaitingDevice /\ devMsg.event.Connected
        => m'.state = StateFlashing)
    /\ (FlashOutcomeStep /\ flashMsg.Success /\ m.flashIndex = 0
        => m'.state = StateWaitingDisconnect)
    /\ (FlashOutcomeStep /\ flashMsg.Success /\ m.flashIndex = 1
        => m'.state = StateComplete)

\* an event the detector has to deliver during a normal session of a
\* two-side keyboard finds a listener, or a message whose handling re-arms it
C2_EventsHandled ==
  (TwoSides /\ prog = "running" /\ InSession(m.state) /\ ~ResetSession(m)
     /\ dpc = "send")
  => (listeners > 0 \/ devMsg.present)

\* C2: the end-to-end session of a two-side keyboard: Flash while
\* connected -> WaitingDisconnect; disconnect -> WaitingDevice; connect ->
\* Flashing; success of side 1 -> WaitingDisconnect; success of side 2 ->
\* Complete; and every device change the detector reports during the
\* session is handled by the orchestrator.
C2_EndToEndSession == [][C2_SessionSteps]_vars /\ [](C2_EventsHandled)

\* a session starts: the flow leaves Idle for a waiting state or Flashing
SessionStart == m.state = StateIdle /\ InSession(m'.state)

\* C4: the cursor advances only while a successful flash outcome is
\* handled, and then by one; a failed outcome moves the flow to Idle; every
\* session starts at the first side.
C4_CursorDiscipline ==
  [][/\ (m'.flashIndex > m.flashIndex
           => (FlashOutcomeStep /\ flashMsg.Success
               /\ m'.flashIndex = m.flashIndex + 1))
     /\ ((FlashOutcomeStep /\ ~flashMsg.Success) => m'.state = StateIdle)
     /\ (SessionStart
           => (/\ m'.flashIndex = 0
               /\ m'.flashTarget \in {FlashSides(cfg)[1],
                                      ResetSides(cfg)[1] \o s_resetSuffix}))]_vars

\* a session ended before its last side: the flow is back in Idle with the
\* cursor left behind at a later side
C4_Witness ==
  /\ prog = "running" /\ m.state = StateIdle /\ nFlash = 0
  /\ m.flashIndex >= 1 /\ m.flashIndex < Len(FlashSides(cfg))
  /\ Len(m.completedSteps) = m.flashIndex

\* at most one outcome is outstanding, a flash outcome only in Flashing and
\* a build outcome only in Building
C5_Outstanding ==
  /\ nFlash + nBuild <= 1
  /\ (nFlash = 1 => m.state = StateFlashing)
  /\ (nBuild = 1 => m.state = StateBuilding)

\* C5: single flight: at most one build or flash worker is outstanding,
\* and only in Building resp. Flashing (so never in Idle); a build or a
\* session is started only from Idle, a flash only from Idle (reset) or
\* WaitingDevice.
C5_SingleFlight ==
  /\ [](C5_Outstanding)
  /\ [][/\ ((nBuild' > nBuild \/ (InSession(m'.state) /\ ~InSession(m.state)))
            => m.state = StateIdle)
        /\ (nFlash' > nFlash => m.state \in {StateIdle, StateWaitingDevice})]_vars

\* a flash outcome is outstanding
C5_Witness == nFlash = 1 /\ flashMsg.present /\ m.state = StateFlashing

\* C6: every flash command is issued in a step that leaves the recorded
\* status Connected with a device path; issued by a device event only from
\* WaitingDevice on a connect; a normal flash only from WaitingDevice.
C6_LaunchOnlyWhenConnected ==
  [][Launch =>
       /\ m'.deviceStatus = DeviceConnected
       /\ m'.devicePath \in PathSet
       /\ (DeviceStep => (m.state = StateWaitingDevice /\ devMsg.event.Connected))
       /\ (~IsResetTarget(m'.flashTarget) => (DeviceStep /\ m.state = StateWaitingDevice))
       /\ (~DeviceStep => (m.state = StateIdle /\ IsResetTarget(m'.flashTarget)))]_vars

\* a normal flash has been launched
C6_Witness ==
  flashJob.present /\ m.state = StateFlashing /\ ~IsResetTarget(m.flashTarget)

\* C7: f or Enter in Idle: with a selected build WaitingDisconnect if the
\* recorded status is Connected, WaitingDevice otherwise, and no flash
\* command; with no build the flow stays Idle.
C7_FlashCommand ==
  [][(\E k \in {"f", "enter"} : IdleKeyStep(k)) =>
       /\ nFlash' = nFlash
       /\ m'.state # StateFlashing
       /\ IF HasSelected(m) /\ Len(Selected(m).Files) > 0
            THEN m'.state = IF m.deviceStatus = DeviceConnected
                              THEN StateWaitingDisconnect ELSE StateWaitingDevice
            ELSE m'.state = StateIdle]_vars

\* a Flash command was accepted while the device was recorded as connected
C7_Witness ==
  /\ m.state = StateWaitingDisconnect /\ m.flashIndex = 0
  /\ m.deviceStatus = DeviceConnected /\ ~ResetSession(m)

\* the file of the selected build that has the given path
NameOfPath(mm, path) ==
  LET files == Selected(mm).Files
  IN  files[CHOOSE i \in 1..Len(files) : files[i].Path = path].Name

C9_ResetSingleSide ==
  (ResetSession(m) /\ m.flashIndex >= 1) => ~InSession(m.state)

\* C10: in Complete every side of the side sequence has been flashed
\* successfully, in order, in this session.
C10_CompleteMeansAllSides ==
  m.state = StateComplete => m.completedSteps = FlashSides(cfg)

\* file f carries the side identifier in its name, letter case ignored
SideMatches(f, side) == Contains(ToLower(f.Name), ToLower(side))

\* path p (NoPath: none) is the file the resolution rule chooses
Chosen(files, side, p) ==
  IF \E i \in 1..Len(files) : SideMatches(files[i], side)
    THEN \E i \in 1..Len(files) :
           /\ SideMatches(files[i], side)
           /\ \A j \in 1..(i - 1) : ~SideMatches(files[j], side)
           /\ p = files[i].Path
    ELSE IF Len(files) = 1 THEN p = files[1].Path ELSE p = NoPath

\* the orchestrator handles the connect event a side was waiting for
ResolveStep ==
  /\ DeviceStep /\ m.state = StateWaitingDevice /\ devMsg.event.Connected
  /\ HasSelected(m) /\ ~ResetSession(m)

\* C11: when a side's flash is due, the file flashed is the first file of
\* the build whose name contains the side (case-insensitive), else the only
\* file of a one-file build; else no flash is issued and the flow is Idle.
\* runHeadless resolves the same file for the same build and side.
C11_TargetFileResolution ==
  [][ResolveStep =>
        LET files == Selected(m).Files
            side == FlashSides(cfg)[m.flashIndex + 1]
            p == HeadlessResolveFile(files, side)
        IN  /\ Chosen(files, side, p)
            /\ IF p = NoPath
                 THEN m'.state = StateIdle /\ ~flashJob'.present
                      /\ nFlash' = nFlash
                 ELSE m'.state = StateFlashing /\ Launch
                      /\ flashJob'.present /\ flashJob'.file = p]_vars

\* a flash is under way of the first of two matching files, of a file
\* matched in another letter case, of the only file though it does not match
C11_WitnessFirstMatch ==
  /\ m.state = StateFlashing /\ flashJob.present /\ ~ResetSession(m)
  /\ Cardinality({i \in 1..Len(Selected(m).Files) :
         SideMatches(Selected(m).Files[i], m.flashTarget)}) >= 2

C11_WitnessFallback ==
  /\ m.state = StateFlashing /\ flashJob.present /\ ~ResetSession(m)
  /\ \A i \in 1..Len(Selected(m).Files) :
         ~SideMatches(Selected(m).Files[i], m.flashTarget)

(***************************************************************************)
(* Properties of runHeadless                                               *)
(***************************************************************************)
\* C3: headless, a side after the first is flashed only after a disconnect
\* was observed since the previous side's flash finished; a volume that
\* stayed mounted since then is not flashed again.
C3_HeadlessNextSideAfterDisconnect ==
  (h.pc = "flash" /\ h.side > 1) => (h.sawDisc /\ ~h.stayed)

(***************************************************************************)
(* C21: the build worker never blocks on progress delivery.  Whenever the  *)
(* worker is in the progress callback its send can be taken at once; the   *)
(* message is queued if m.buildProgress holds fewer than ProgressCap       *)
(* messages and dropped otherwise, leaving the queue as it was; and the    *)
(* build reaches its outcome however slowly, or whether at all, the        *)
(* messages are consumed.                                                  *)
(***************************************************************************)
InCallback == bp.sending # 0

C21_SendStep ==
  (InCallback /\ bp'.sending = 0) =>
     IF Len(bp.buf) < ProgressCap
       THEN bp'.buf = Append(bp.buf, bp.sending) /\ bp'.dropped = bp.dropped
       ELSE bp'.buf = bp.buf /\ bp'.dropped = bp.dropped + 1

C21_NeverBlocks ==
  /\ [](InCallback => ENABLED ProgressSend)
  /\ [][C21_SendStep]_vars
  /\ <>(bp.outcome # "")

\* a message was dropped on a full channel and the build still ended
C21_Witness ==
  bp.dropped > 0 /\ Len(bp.buf) = ProgressCap /\ bp.outcome = "success"

(***************************************************************************)
(* C22: when the native Build has returned, on whatever path, the child    *)
(* process it started has been terminated and waited for and the pipe it   *)
(* opened is closed.                                                       *)
(***************************************************************************)
C22_BuildReleasesResources ==
  nb.pc = "done" => (nb.child \in {"none", "reaped"} /\ ~nb.pipe)

(***************************************************************************)
(* C23: a native build whose context was cancelled while the child was     *)
(* running returns the cancellation outcome, whether or not another line   *)
(* of output was read after the cancellation.                              *)
(***************************************************************************)
C23_CancelReported ==
  (nb.pc = "done" /\ nb.cancelled /\ nb.child # "none")
     => nb.result = "cancelled"

\* Flash has returned
FlashDone == fl.pc = "done"

\* Flash holds no file handle once it has returned
FlashReleasesHandles == FlashDone => (~fl.srcOpen /\ ~fl.dstOpen)

(***************************************************************************)
(* C24: Flash reports success only if the bytes written equal the size     *)
(* Stat reported and the sync of the destination succeeded; when the copy  *)
(* loop ended without error and the written total differs from that size,  *)
(* or the sync failed, the outcome is a failure that reports the bytes     *)
(* written; with an existing destination directory, an unchanged source    *)
(* and no I/O error the outcome is success with BytesWritten equal to the  *)
(* source size.                                                            *)
(***************************************************************************)
\* the copy loop ended without error: Flash went on to the size comparison
CopyEndedClean == FlashDone /\ fl.result.Error \in {"", "size mismatch", "sync"}

C24_SuccessMeansVerified ==
  /\ (FlashDone /\ fl.result.Success)
       => (fl.result.BytesWritten = fl.size /\ fl.written = fl.size /\ fl.synced)
  /\ (CopyEndedClean /\ (fl.written # fl.size \/ ~fl.synced))
       => (~fl.result.Success /\ fl.result.BytesWritten = fl.written)
  /\ (FlashDone /\ fl.srcExists /\ fl.dirExists /\ fl.content = fl.size
        /\ ~fl.ioErr /\ ~fl.cancelled)
       => (fl.result.Success /\ fl.result.BytesWritten = fl.size)

\* the copy ended without error having written less than Stat reported
C24_Witness ==
  CopyEndedClean /\ fl.written # fl.size /\ fl.result.Error = "size mismatch"

\* a flash that succeeded, with more than one chunk copied
C24_WitnessSuccess ==
  FlashDone /\ fl.result.Success /\ fl.result.BytesWritten > ChunkSize

(***************************************************************************)
(* C25: Flash called with a context that is already cancelled returns the  *)
(* cancellation outcome with zero bytes written, having opened no source   *)
(* and created no destination file: the device directory is as it was.     *)
(***************************************************************************)
C25_CancelledBeforeCall ==
  (FlashDone /\ fl.cancelled0)
     => /\ fl.result = FlashResult(FALSE, "cancelled", "", 0)
        /\ fl.opens = 0
        /\ fl.dst = fl.dst0

\* cancelled before the call, with a source and a device directory at hand
C25_Witness ==
  FlashDone /\ fl.cancelled0 /\ fl.srcExists /\ fl.dirExists /\ fl.size > 0

(***************************************************************************)
(* C26: the copy loop looks at the cancellation signal before each chunk   *)
(* read and never retries a chunk; when it stops early (cancellation, a    *)
(* write error, a short write) the failed outcome's BytesWritten is        *)
(* exactly what reached the destination, and no more than the source       *)
(* holds.                                                                  *)
(***************************************************************************)
C26_LoopStep ==
  /\ (fl.pc = "copy" /\ fl.cancelled /\ fl' # fl)
       => /\ fl'.pc = "done"
          /\ fl'.read = fl.read /\ fl'.dst = fl.dst
          /\ fl'.result = FlashResult(FALSE, "copy", "cancelled", fl.dst)
  /\ (fl.pc = "copy" /\ fl'.dst - fl.dst < fl'.read - fl.read)
       => (fl'.pc = "done" /\ ~fl'.result.Success)

C26_StoppedEarly == FlashDone /\ fl.result.Error = "copy"

C26_ExactAccounting ==
  /\ [](C26_StoppedEarly
          => (fl.result.BytesWritten = fl.dst
                /\ fl.result.BytesWritten <= fl.content))
  /\ [][C26_LoopStep]_vars

\* stopped by a write that took only a part of the chunk, after a chunk
\* that was written whole
C26_Witness ==
  /\ C26_StoppedEarly
  /\ fl.result.Cause \in {"write", "short write"}
  /\ fl.read > ChunkSize
  /\ fl.dst > 0
  /\ fl.dst < fl.read

\* stopped by a cancellation between two chunks
C26_WitnessCancel ==
  C26_StoppedEarly /\ fl.result.Cause = "cancelled" /\ fl.dst > 0

(***************************************************************************)
(* C27: the flash worker gets its data by message, not from state it       *)
(* shares with the orchestrator: the device path Flash is called with is   *)
(* the path that was current when the flash was started, whatever device   *)
(* events the orchestrator handles between the start and the call.         *)
(***************************************************************************)
\* a step in which the command's closure calls Flash
FlashCallStep == flashJob.present /\ ~flashMsg.present /\ flashMsg'.present

C27_WorkerUsesStartPath ==
  [][FlashCallStep => flashMsg'.path = flashJob.path]_vars

(***************************************************************************)
(* C28: the flow leaves Building only in the step that handles the build   *)
(* outcome message, and that step always ends in Idle, for a success and   *)
(* for a failure; after a success the firmware list is what the scan of    *)
(* the firmware directory returns, whatever it returns, and after a        *)
(* failure the list and its selection are what they were.                  *)
(***************************************************************************)
\* a step that handles a buildCompleteMsg
BuildOutcomeStep == buildMsg.present /\ ~buildMsg'.present /\ prog' = "running"

C28_Step ==
  /\ (m.state = StateBuilding /\ m'.state # StateBuilding /\ prog' = "running")
       => BuildOutcomeStep
  /\ BuildOutcomeStep
       => /\ m.state = StateBuilding
          /\ m'.state = StateIdle
          /\ buildMsg.Success => m'.builds \in ScanResults
          /\ ~buildMsg.Success
               => (m'.builds = m.builds /\ m'.selected = m.selected)

\* a successful outcome waits to be handled: every scan result can become
\* the list
C28_Rescanned ==
  (prog = "running" /\ buildMsg.present /\ buildMsg.Success)
     => \A scan \in ScanResults :
          ENABLED (UpdateBuildComplete /\ m'.builds = scan)

C28_BuildingLeavesOnOutcome == [](C28_Rescanned) /\ [][C28_Step]_vars

\* a successful outcome is about to be handled in Building, the list shown
\* holds two builds and the second is selected
C28_Witness ==
  /\ prog = "running" /\ m.state = StateBuilding
  /\ buildMsg.present /\ buildMsg.Success
  /\ Len(m.builds) = 2 /\ m.selected = 1

\* a failed outcome is about to be handled in Building
C28_WitnessFailure ==
  /\ prog = "running" /\ m.state = StateBuilding
  /\ buildMsg.present /\ ~buildMsg.Success /\ m.builds # <<>>

(***************************************************************************)
(* C29: Esc in WaitingDisconnect or WaitingDevice returns the flow to      *)
(* Idle; from then on, until a key starts a new Flash or reset, a device   *)
(* event, connect or disconnect, neither launches a flash nor changes      *)
(* FlowState.                                                              *)
(***************************************************************************)
Waiting(st) == st \in {StateWaitingDisconnect, StateWaitingDevice}

\* a step that handles the key esc and nothing else
EscStep ==
  /\ prog = "running" /\ prog' = "running"
  /\ m' = handleKey(m, cfg, "esc", TRUE).m
  /\ UNCHANGED <<devMsg, flashMsg, buildMsg, listeners, mounted, dpc, dLast>>

\* Esc pressed in a waiting state ends the session
C29_EscCancels ==
  (EscStep /\ Waiting(m.state)) => (m'.state = StateIdle /\ ~Launch)

\* in Idle a device event starts nothing; only a key leaves Idle
C29_IdleIgnoresDevice ==
  /\ (DeviceStep /\ m.state = StateIdle)
       => (m'.state = StateIdle /\ ~Launch /\ ~flashJob'.present)
  /\ (m.state = StateIdle /\ m'.state # StateIdle)
       => (\E k \in Keys : m' = handleKey(m, cfg, k, TRUE).m) /\ ~DeviceStep

C29_CancelStopsSession == [][C29_EscCancels /\ C29_IdleIgnoresDevice]_vars

\* the same with Esc pressed while no overlay is open
C29_CancelWithoutOverlay ==
  [][/\ (EscStep /\ Waiting(m.state) /\ ~m.showHelp)
          => (m'.state = StateIdle /\ ~Launch)
     /\ C29_IdleIgnoresDevice]_vars

\* a session was started and left in Idle with nothing flashed, and a
\* connect event waits to be handled
C29_Witness ==
  /\ prog = "running" /\ m.state = StateIdle
  /\ m.flashTarget = FlashSides(cfg)[1] /\ m.completedSteps = <<>>
  /\ devMsg.present /\ devMsg.event.Connected
  /\ HasSelected(m)

(***************************************************************************)
(* C30: a factory reset starts only from the open confirmation dialog with *)
(* the Confirm option selected; the dialog opens with Cancel selected, and *)
(* a dialog closed with another option than Confirm selected (Enter        *)
(* without moving the selection, Esc) starts nothing and leaves FlowState  *)
(* as it was.                                                              *)
(***************************************************************************)
\* a step in which a factory reset session begins
ResetStart ==
  /\ prog' = "running"
  /\ m.state = StateIdle
  /\ m'.state \in {StateFlashing, StateWaitingDevice, StateWaitingDisconnect}
  /\ IsResetTarget(m'.flashTarget)

C30_Step ==
  /\ ResetStart
       => /\ m.showDialog /\ m.confirmDialog = DialogConfirm
          /\ m' = handleKey(m, cfg, "enter", TRUE).m
          /\ ~m'.showDialog
  /\ (~m.showDialog /\ m'.showDialog) => m'.confirmDialog = DialogCancel
  /\ (m.showDialog /\ ~m'.showDialog /\ m.confirmDialog # DialogConfirm
        /\ prog' = "running")
       => (m'.state = m.state /\ ~Launch /\ m'.flashTarget = m.flashTarget)

C30_ResetNeedsConfirmation == [][C30_Step]_vars

\* the reset was confirmed with no device connected: the flow waits for one
C30_Witness ==
  /\ prog = "running" /\ m.state = StateWaitingDevice
  /\ IsResetTarget(m.flashTarget)
  /\ ~m.showDialog /\ m.confirmDialog = DialogConfirm

(***************************************************************************)
(* The initial event of Detect                                             *)
(***************************************************************************)
\* the worker leaves its start: the check, then the send of its result
InitialCheck ==
  dpc = "start" /\ dpc' # "start" =>
    /\ dpc' = "send"
    /\ dLast' = findDevice(mounted)
    /\ dLast'.Connected = (mounted # {})
    /\ dLast'.Connected => dLast'.Path \in mounted
    /\ ~devMsg'.present

\* the first event received is the one of the initial check, untouched
InitialDelivery ==
  /\ (dpc = "send" /\ ~devMsg.present) => dLast' = dLast
  /\ (Delivery /\ ~devMsg.present) => devMsg'.event = dLast
  /\ dpc # "start" => dpc' # "start"

\* no tick of the ticker loop before the initial event was handed over
NoPollBeforeInitial == ~devMsg.present => dpc \in {"start", "send", "closed"}

\* C31: Detect emits exactly one initial event, before any poll tick and
\* before any other event; its connected flag and path are the presence of
\* the volume when the worker starts (connected with the mount path when it
\* exists, disconnected otherwise).
C31_InitialEvent ==
  /\ [](NoPollBeforeInitial)
  /\ [](dpc = "start" => ENABLED DetectStart)
  /\ [][InitialCheck /\ InitialDelivery]_vars

\* the initial event of a mounted volume has been received
C31_Witness ==
  /\ prog = "detect" /\ dpc = "poll" /\ devMsg.present
  /\ devMsg.event = dLast /\ dLast.Connected /\ dLast.Path \in mounted

(***************************************************************************)
(* Properties of findDevice                                                *)
(***************************************************************************)
\* the candidates that exist, by their place in the priority order
Existing == {i \in 1..Len(fd.paths) : fd.paths[i] \in fd.exists}

\* C32: on the multi-root platform presence is true if and only if at
\* least one candidate mount path exists; the reported path is the first
\* existing candidate in priority order, or the first candidate when none
\* exists.
C32_FirstExistingCandidate ==
  fd.pc = "done" =>
    /\ fd.connected = (Existing # {})
    /\ \A i \in Existing :
         (\A j \in Existing : i <= j) => fd.path = fd.paths[i]
    /\ (Existing = {} /\ Len(fd.paths) > 0) => fd.path = fd.paths[1]

\* only the second candidate exists and it is the one reported
C32_Witness ==
  /\ fd.pc = "done" /\ Len(fd.paths) = 2 /\ fd.paths[1] # fd.paths[2]
  /\ fd.paths[1] \notin fd.exists /\ fd.paths[2] \in fd.exists
  /\ fd.connected /\ fd.path = fd.paths[2]

\* both candidates exist and the first one is reported
C32_WitnessPriority ==
  /\ fd.pc = "done" /\ Len(fd.paths) = 2 /\ fd.paths[1] # fd.paths[2]
  /\ fd.paths[1] \in fd.exists /\ fd.paths[2] \in fd.exists
  /\ fd.connected /\ fd.path = fd.paths[1]

\* no candidate exists and the first one is reported as the expected place
C32_WitnessNone ==
  /\ fd.pc = "done" /\ Len(fd.paths) = 2 /\ Existing = {}
  /\ ~fd.connected /\ fd.path = fd.paths[1]

\* a progress-marker line has been reported by the callback
MarkerStep == nb'.n = nb.n + 1 /\ nb'.line.marker

\* the greatest of the totals seen so far (0 before any)
MaxSeen(seen) == CHOOSE t \in seen \cup {0} : \A u \in seen : u <= t

\* C33: in the native Build, for every progress-marker line [c/t] the
\* reported Total is the maximum of all totals seen so far in that run, so
\* it never decreases from one marker line to the next; the reported
\* percent is c * 100 / Total in integer division (0 when Total is 0) and
\* stays within 0..100 whenever c <= t.
C33_RunningMaxTotal ==
  [][/\ nb'.maxTotal >= nb.maxTotal
     /\ MarkerStep =>
          LET c == Atoi(nb'.line.cur)
              t == Atoi(nb'.line.tot)
          IN  /\ nb'.maxTotal = MaxSeen(nb.seen \cup {t})
              /\ nb'.percent = IF nb'.maxTotal = 0 THEN 0
                               ELSE (c * 100) \div nb'.maxTotal
              /\ c <= t => nb'.percent \in 0..100]_vars

\* a marker line with a smaller total than the running maximum was reported
C33_Witness ==
  /\ nb.pc = "read" /\ nb.line.marker
  /\ Atoi(nb.line.tot) < nb.maxTotal /\ Atoi(nb.line.cur) <= Atoi(nb.line.tot)
  /\ nb.percent = (Atoi(nb.line.cur) * 100) \div nb.maxTotal
  /\ nb.percent > 0

\* a marker line while no total above 0 has been seen: percent 0
C33_WitnessZeroTotal ==
  /\ nb.pc = "read" /\ nb.line.marker /\ nb.maxTotal = 0
  /\ Atoi(nb.line.cur) > 0 /\ nb.percent = 0

\* the flash command of the first side of a flashing session (no reset)
FirstLaunch ==
  Launch /\ m'.flashIndex = 0 /\ ~IsResetTarget(m'.flashTarget)

\* C34: the flash of the first side never starts on a device that was
\* already mounted when the Flash command was issued, unless it was
\* unplugged and plugged in again after the command; also when the command
\* is issued before the detector's initial event has been handled.  Here:
\* no first flash starts on a volume that has been mounted without a break
\* since the program started.
C34_FirstFlashNeedsReplug == [][FirstLaunch => ~h.stayed]_vars

\* the listenForNextEvent commands that are waiting on the detector channel
\* or whose message is waiting to be handled (handling it re-arms)
ListenersArmed == listeners + (IF devMsg.present THEN 1 ELSE 0)

\* C35: while detection is active and the program has not quit, exactly one
\* listener on the detector channel is outstanding after every message the
\* orchestrator handles, in any state of the flow, so an event the detector
\* is sending can always be received and the worker is never left blocked
\* on its send.
C35_OneListener ==
  (prog = "running" /\ ~ctxDone) =>
    /\ ListenersArmed = 1
    /\ dpc = "send" => (devMsg.present \/ ENABLED ListenReceive)

(***************************************************************************)
(* C36: when a build ends with any outcome, a failure while ensuring the   *)
(* container image included, the build's progress channel is closed, so    *)
(* the progress listener of that build is never left blocked in its        *)
(* receive once the outcome has been returned.                             *)
(***************************************************************************)
C36_ChannelClosedAtOutcome ==
  bp.outcome # "" =>
    /\ bp.closed
    /\ bp.listening /\ bp.msg = 0 => ENABLED ListenProgress

(***************************************************************************)
(* C37: once the orchestrator has handled the outcome message of a build   *)
(* it handles no progress message of that build afterwards; after a        *)
(* successful build the build percent stays 100.                           *)
(***************************************************************************)
\* Update handles a buildProgressMsg
ProgressStep == bp.msg # 0 /\ bp'.msg = 0

C37_NoProgressAfterOutcome ==
  /\ [][bp.handled => ~ProgressStep]_vars
  /\ [](bp.handled /\ bp.outcome = "success" => bp.percent = FullPercent)

\* C38: whenever the flow is in WaitingDisconnect the recorded device
\* status is Connected: the flow never waits for the disconnect of a device
\* it has already recorded as disconnected.
C38_WaitsOnlyWhileConnected ==
  (prog = "running" /\ m.state = StateWaitingDisconnect)
    => m.deviceStatus = DeviceConnected

\* a step taken within a flashing session, its first step included, by a
\* program that goes on running
SessionStep ==
  prog = "running" /\ prog' = "running" /\ (InSession(m.state) \/ SessionStart)

\* no build runs and no outcome of a build is waiting during a session
NoBuildInSession ==
  (prog = "running" /\ InSession(m.state)) =>
     (~buildJob /\ ~buildMsg.present /\ nBuild = 0 /\ ~m.showBuildMenu)

\* C39: within one flashing session, from the Flash command until the flow
\* returns to Idle or reaches Complete, the selected build and its file
\* list do not change: neither navigation nor a re-scan can happen in
\* WaitingDisconnect, WaitingDevice or Flashing, so every side of the
\* session is resolved against the same build.
C39_SessionKeepsBuild ==
  /\ [][SessionStep => (m'.builds = m.builds /\ m'.selected = m.selected)]_vars
  /\ [](NoBuildInSession)

\* the second side of a session waits while the list holds several builds
\* and the selected one is not the first
C39_Witness ==
  /\ prog = "running" /\ m.state = StateWaitingDevice /\ m.flashIndex = 1
  /\ Len(m.builds) > 1 /\ m.selected > 0

\* a worker runs: the flow is in Flashing or Building
Busy(st) == st \in {StateFlashing, StateBuilding}

\* what any key does to the model in the current state
KeysInert ==
  \A k \in Keys, dockerOk \in BOOLEAN :
    LET r == handleKey(m, cfg, k, dockerOk)
    IN  /\ r.m.state = m.state
        /\ r.m.flashIndex = m.flashIndex
        /\ r.m.flashTarget = m.flashTarget
        /\ r.m.selected = m.selected
        /\ r.m.builds = m.builds
        /\ r.cmd.flash = NoPath /\ ~r.cmd.build
        /\ r.cmd.quit = (k = "ctrl+c")

\* the flow leaves Flashing or Building
LeavesBusy ==
  prog = "running" /\ prog' = "running" /\ Busy(m.state) /\ m'.state # m.state

\* C40: while the flow is in Flashing or Building no key press changes the
\* flow state, the side cursor, the flash target or the selected build, and
\* the q key does not quit (ctrl+c alone ends the program); only the flash
\* or build outcome message leaves these states.
C40_BusyIgnoresKeys ==
  /\ []((prog = "running" /\ Busy(m.state)) => KeysInert)
  /\ [][LeavesBusy =>
          \/ m.state = StateFlashing /\ FlashOutcomeStep
          \/ m.state = StateBuilding /\ BuildOutcomeStep]_vars

\* a build runs while several builds are listed and one below the first is
\* selected
C40_Witness ==
  /\ prog = "running" /\ m.state = StateBuilding /\ nBuild = 1
  /\ Len(m.builds) > 1 /\ m.selected > 0

\* a flash runs for the second side
C40_WitnessFlashing ==
  /\ prog = "running" /\ m.state = StateFlashing /\ nFlash = 1
  /\ m.flashIndex = 1 /\ Len(m.builds) > 1

====
